---- MODULE Spec2Model ----
(***************************************************************************)
(* A model of the stdio JSON-RPC transport of partner                      *)
(* (internal/mcp/transport/stdio.go): one StdioTransport shared by several *)
(* goroutines that call Start, Call and Close on it, and the child process *)
(* at the other end of its pipes.                                          *)
(***************************************************************************)
EXTENDS Integers, Sequences, FiniteSets, Bags, TLC

\* ------------------------------------------------------------------ bounds
NumCallers == 2     \* goroutines sharing the transport
MaxOps == 2         \* Start / Call / Close invocations begun (a Close of closed stdin is free)
MaxNoise == 1       \* unsolicited lines the child may put on its stdout
MaxLines == 3       \* lines of the text a task tool returns
MaxEvents == 2      \* elements of the list a calendar tool returns
MaxExcess == 2      \* bytes of a calendar text beyond the preview of a decode error
MaxDays == 3        \* the days argument of GetUpcomingEvents goes from -1 to MaxDays
MaxAsks == 2        \* calls of Client.Ask that have not been taken back yet
MaxTasks == 2       \* tasks in the list a fetch of the tasks pane gives back
MaxCmds == 2        \* commands of the tasks pane that have not delivered yet

Callers == 1..NumCallers
Free == 0           \* value of mu when the mutex is not held

\* ------------------------------------------------------------------ values
Nil == "nil"                    \* a nil json.RawMessage
Absent == "absent"              \* a field that a JSON line does not carry
NoID == -1                      \* wire lines without an "id" member
NoErr == <<>>                   \* a nil error (the empty chain of messages)

VARIABLES
  started,      \* t.started
  process,      \* t.cmd.Process and the child behind it:
                \*   "none" (not spawned), "failed" (cmd.Start failed),
                \*   "running", "exited" (child ended by itself), "killed"
  once,         \* t.startOnce: "fresh", "running", "done"
  onceOwner,    \* the goroutine that runs (ran) the once body, 0 if none
  mu,           \* t.mu: Free or the goroutine holding it
  reqID,        \* t.reqID
  stdinOpen,    \* FALSE once t.stdin.Close() was called
  stdinLog,     \* the messages written to the child's stdin, in order
  stdout,       \* the lines the child wrote and the transport has not read
  stack,        \* per goroutine: its call stack of frames
  ret,          \* per goroutine: the value returned to its current frame, or
                \*   by the invocation it finished
  seen,         \* per goroutine: the lines its current Call has read
  ctxDone,      \* per goroutine: the ctx given to its Call is done
  event,        \* the returns of Start, Call and Close in the last step
  answered,     \* history: the ids of the requests the child has answered
  dropped,      \* history: a Call read an answer of the child and skipped it
  delivered,    \* history: <<id, goroutine>> for each response that made a
                \*   Call of that goroutine return
  rogue,        \* history: the child wrote a line with an id that answers nothing
  readFailed,   \* history: ReadBytes on the child's stdout returned an error
  rpcFailed,    \* history: a Call made by a caller returned the error object
                \*   of its response
  spawnCount,   \* history: calls of t.cmd.Start()
  initCount,    \* history: calls of t.initialize()
  startOutcome, \* history: what the once body left in startErr: "none","ok","err"
  closeReturned, \* history: a Close has returned
  noiseCount,   \* unsolicited lines written so far
  opsBegun,     \* top-level invocations begun so far
  active,       \* goroutines 1..active have invoked something
  \* -- a provider method on top of the client (internal/mcp/providers)
  tool,         \* the tool the provider method calls: "get_today",
                \*   "list-events", or "" when no method is called
  zone,         \* the offset of the local time zone from UTC, in hours
  reply,        \* what the transport's Call returns to Client.CallTool
  phase,        \* "idle", "asked" (a range method of the calendar is called),
                \*   "called" (the method has called CallTool),
                \*   "client" (CallTool has returned), "done"
  toolResult,   \* what Client.CallTool returned
  out,          \* what the provider method returned
  request,      \* the range method called: its name, what time.Now() gives
                \*   it (minutes since 2025-03-10T00:00Z) and its days argument
  args,         \* the arguments of the list-events call the method made
  \* -- the root model of the app and the assistant's client (package app,
  \*    internal/claude)
  app,          \* the fields of the app's Model, the focused flag of each
                \*   pane instance, and how the program has ended, if it has
  sessionID,    \* claudeClient.sessionID
  asks,         \* the calls of Client.Ask that have not been taken back yet
                \*   (a bag: the calls are in goroutines of no order)
  initPc,       \* where the command of initMCPProviders is
  hist,         \* history: the last message Update handled or the last step
                \*   of the client, and what held before it
  \* -- the tasks pane (package tasks)
  pane,         \* the fields of the tasks pane's Model but focused, which is
                \*   app.focused["tasks"]
  cmds          \* the commands the pane has returned whose message has not
                \*   been handled yet (a bag: each runs in its own goroutine)

vars == <<started, process, once, onceOwner, mu, reqID, stdinOpen, stdinLog,
          stdout, stack, ret, seen, ctxDone, event, answered, delivered,
          dropped, rogue, readFailed, rpcFailed, spawnCount, initCount, startOutcome,
          closeReturned, noiseCount, opsBegun, active, tool, zone, reply, phase, toolResult, out,
          request, args, app, sessionID, asks, initPc, hist, pane, cmds>>

appVars == <<app, sessionID, asks, initPc, hist>>
paneVars == <<pane, cmds>>
providerVars == <<tool, zone, reply, phase, toolResult, out, request, args>>
transportVars == <<started, process, once, onceOwner, mu, reqID, stdinOpen, stdinLog>>
childVars == <<stdout, answered, rogue, noiseCount>>
histVars == <<dropped, delivered, readFailed, rpcFailed, spawnCount, initCount, startOutcome,
              closeReturned>>

\* ------------------------------------------------------------- wire format
\* A line of the child's stdout.  json = FALSE: the line does not decode into
\* a JSONRPCResponse (not JSON, or JSON of another shape).
GarbageLine == [json |-> FALSE, id |-> NoID, result |-> Absent, error |-> <<>>]
NotificationLine == [json |-> TRUE, id |-> NoID, result |-> Absent, error |-> <<>>]
ResultLine(i, r) == [json |-> TRUE, id |-> i, result |-> r, error |-> <<>>]
ErrorLine(i, e) == [json |-> TRUE, id |-> i, result |-> Absent, error |-> e]
BareIdLine(i) == [json |-> TRUE, id |-> i, result |-> Absent, error |-> <<>>]

\* json.Unmarshal(line, &resp) into a zero JSONRPCResponse: a missing id leaves
\* ID = 0, a missing result leaves Result = nil, a missing error leaves Error = nil.
Unmarshal(line) ==
  IF ~line.json
  THEN [ok |-> FALSE, ID |-> 0, Result |-> Nil, HasError |-> FALSE, Code |-> 0, Message |-> ""]
  ELSE [ok |-> TRUE,
        ID |-> IF line.id = NoID THEN 0 ELSE line.id,
        Result |-> IF line.result = Absent THEN Nil ELSE line.result,
        HasError |-> line.error # <<>>,
        Code |-> IF line.error # <<>> THEN line.error[1] ELSE 0,
        Message |-> IF line.error # <<>> THEN line.error[2] ELSE ""]

\* The messages the transport writes.
RequestMsg(i, method) == [kind |-> "request", id |-> i, method |-> method]
NotificationMsg(method) == [kind |-> "notification", id |-> NoID, method |-> method]

\* ------------------------------------------------------------ return values
\* (json.RawMessage, error): err is the chain of wrapped messages, outermost
\* first; code and msg are those of a *JSONRPCError at the end of the chain.
Value(res, err, code, msg) == [res |-> res, err |-> err, code |-> code, msg |-> msg]
Ok(res) == Value(res, NoErr, 0, "")
Fail(err) == Value(Nil, err, 0, "")
WrapFlattened(prefix, v) == Value(Nil, <<prefix>>, 0, "")
Wrap(prefix, v) == Value(Nil, <<prefix>> \o v.err, v.code, v.msg)
IsErr(v) == v.err # NoErr

\* ------------------------------------------------------------------- frames
\* A frame of a goroutine's call stack.  late: the call was made after the
\* once body of Start had ended in an error; afterClose: the call was made
\* after a Close had returned (both kept for Call only).
NewFrame(fn, pc, method) ==
  [fn |-> fn, pc |-> pc, id |-> 0, method |-> method,
   late |-> (fn = "Call" /\ startOutcome = "err"),
   afterClose |-> (fn = "Call" /\ closeReturned)]
Top(c) == stack[c][Len(stack[c])]
Idle(c) == stack[c] = <<>>
At(c, fn, pc) == ~Idle(c) /\ Top(c).fn = fn /\ Top(c).pc = pc
Pop(s) == SubSeq(s, 1, Len(s) - 1)
SetPc(s, pc) == [s EXCEPT ![Len(s)].pc = pc]

\* Close was called after an earlier Close had closed stdin.
Again(f) == f.fn = "Close" /\ ~stdinOpen

\* What is recorded of a return: the goroutine, the frame's function, method
\* argument and late and afterClose flags, the id it allocated (0: none), the lines it read,
\* its value, and for Close whether it came after another Close.
Returned(c, f, id, lines, v) ==
  [c |-> c, fn |-> f.fn, method |-> f.method, late |-> f.late,
   afterClose |-> f.afterClose, id |-> id,
   lines |-> lines, ret |-> v, again |-> Again(f)]

\* The frame below the one that returned v takes the value: Call returns the
\* error of Start or goes on to the lock; initialize returns the error of its
\* Call wrapped, or goes on to the notification; s is the stack without the
\* frame that returned.
Resume(s, v) ==
  IF s = <<>> THEN [stack |-> s, val |-> v, callFailed |-> FALSE]
  ELSE LET t == s[Len(s)] IN
    IF t.fn = "Call" /\ t.pc = "afterStart"
    THEN IF IsErr(v) THEN [stack |-> Pop(s), val |-> v, callFailed |-> TRUE]
         ELSE [stack |-> SetPc(s, "lock"), val |-> v, callFailed |-> FALSE]
    ELSE IF t.fn = "initialize" /\ t.pc = "afterCall"
    THEN IF IsErr(v)
         THEN [stack |-> Pop(s), val |-> Wrap("initialize failed", v), callFailed |-> FALSE]
         ELSE [stack |-> SetPc(s, "notify"), val |-> v, callFailed |-> FALSE]
    ELSE [stack |-> s, val |-> v, callFailed |-> FALSE]

\* Frame f, put on the stack s of c, returns v, having allocated id and read lines.
ReturnFrom(c, s, f, id, lines, v) ==
  LET r == Resume(s, v) IN
    /\ stack' = [stack EXCEPT ![c] = r.stack]
    /\ ret' = [ret EXCEPT ![c] = IF r.stack = <<>> THEN Ok(Nil) ELSE r.val]
    /\ event' = {Returned(c, f, id, lines, v)} \cup
                (IF r.callFailed
                 THEN {Returned(c, s[Len(s)], 0, <<>>, r.val)}
                 ELSE {})

\* The top frame of c returns v.
Return(c, v) == ReturnFrom(c, Pop(stack[c]), Top(c), 0, <<>>, v)

\* The Call on top of c's stack, with id allocated, returns v after reading lines.
ReturnCall(c, id, lines, v) == ReturnFrom(c, Pop(stack[c]), Top(c), id, lines, v)

\* ------------------------------------------------------------- environment
\* stdin.Write succeeds while the write end is open and the child reads it.
Writable == stdinOpen /\ process = "running"
\* ReadBytes returns an error (EOF) once the child is gone and its output is drained.
StdoutEOF == stdout = <<>> /\ process \in {"failed", "exited", "killed"}

WrittenIds == {stdinLog[i].id : i \in {j \in 1..Len(stdinLog) : stdinLog[j].kind = "request"}}

\* The bytes the child answers request i with.
ResultFor(i) == IF i % 2 = 1 THEN "r1" ELSE "r2"
ErrorFor(i) == IF i % 2 = 1 THEN <<-32601, "not found">> ELSE <<7, "tool failed">>

\* No provider method is called.
ProviderIdle ==
  /\ tool = ""
  /\ zone = 0
  /\ reply = Ok(Nil)
  /\ phase = "idle"
  /\ toolResult = Ok(Nil)
  /\ out = Ok(Nil)
  /\ request = [method |-> "", now |-> 0, days |-> 0]
  /\ args = [calendarId |-> "", timeMin |-> <<>>, timeMax |-> <<>>]

\* NewModel(): the single layout, no active pane, no pane instance; the
\* focused flags are those of the panes initMCPProviders creates.
PaneTypes == {"tasks", "calendar"}
NewModel ==
  [layout |-> "single", activePanes |-> <<>>, focusedPane |-> 0,
   paneInstances |-> {}, focused |-> [p \in PaneTypes |-> FALSE],
   awaitingWindowCmd |-> FALSE, previousLayout |-> "single",
   aiModalVisible |-> FALSE, aiLoading |-> FALSE, aiAction |-> FALSE,
   ended |-> "no"]

\* Nothing has happened yet: no message handled, no pane maximized.
NoHist ==
  [kind |-> "", key |-> "", layout |-> "single", modal |-> FALSE, session |-> "",
   maximized |-> "single", panes |-> 0, trip |-> "none", id |-> "", focus |-> ""]

\* The view modes of the tasks pane, and the key that selects each.
ViewModes == {"today", "inbox", "upcoming", "anytime"}
ViewKeys == {"1", "2", "3", "4"}
ViewOf(k) ==
  CASE k = "1" -> "today" [] k = "2" -> "inbox" [] k = "3" -> "upcoming"
    [] k = "4" -> "anytime"

\* tasks.New(): no task, the cursor on 0, the view Today.  Of m.tasks the
\* model keeps its length n and the view mode it was fetched for ("" for the
\* nil list of New); m.selected is read by the view alone and is left out.
NoTasks == [view |-> "", n |-> 0]
TasksNew ==
  [tasks |-> NoTasks, cursor |-> 0, loading |-> FALSE, err |-> FALSE,
   viewMode |-> "today", ended |-> "no"]

\* The tasks pane has handled no message and has returned no command.
PaneIdle ==
  /\ pane = TasksNew
  /\ cmds = EmptyBag

\* The app is not running.
AppIdle ==
  /\ PaneIdle
  /\ app = NewModel
  /\ sessionID = ""
  /\ asks = EmptyBag
  /\ initPc = "none"
  /\ hist = NoHist

TransportInit ==
  /\ started = FALSE
  /\ process = "none"
  /\ once = "fresh"
  /\ onceOwner = 0
  /\ mu = Free
  /\ reqID = 0
  /\ stdinOpen = TRUE
  /\ stdinLog = <<>>
  /\ stdout = <<>>
  /\ stack = [c \in Callers |-> <<>>]
  /\ ret = [c \in Callers |-> Ok(Nil)]
  /\ seen = [c \in Callers |-> <<>>]
  /\ ctxDone = [c \in Callers |-> FALSE]
  /\ event = {}
  /\ answered = {}
  /\ dropped = FALSE
  /\ delivered = {}
  /\ rogue = FALSE
  /\ readFailed = FALSE
  /\ rpcFailed = FALSE
  /\ spawnCount = 0
  /\ initCount = 0
  /\ startOutcome = "none"
  /\ closeReturned = FALSE
  /\ noiseCount = 0
  /\ opsBegun = 0
  /\ active = 0

Init == TransportInit /\ ProviderIdle /\ AppIdle

\* ------------------------------------------------------------ invocations
\* Goroutine c, doing nothing, may invoke something.  Goroutines are
\* interchangeable: they are numbered in the order of their first invocation.
MayInvoke(c) == Idle(c) /\ c <= active + 1 /\ opsBegun < MaxOps

\* A Close that finds stdin closed already changes nothing of the transport
\* and may come at any time; it is not counted.
MayInvokeClose(c) == Idle(c) /\ c <= active + 1 /\ (opsBegun < MaxOps \/ ~stdinOpen)
Invoked(c) ==
  /\ opsBegun' = opsBegun + 1
  /\ active' = IF c > active THEN c ELSE active

\* The deadline of the ctx given to a Call passes while the Call waits for a
\* line the child has not written.
CtxExpire(c) ==
  /\ At(c, "Call", "read")
  /\ stack[c][1].fn = "Call"
  /\ stdout = <<>>
  /\ ~ctxDone[c]
  /\ ctxDone' = [ctxDone EXCEPT ![c] = TRUE]
  /\ event' = {}
  /\ UNCHANGED <<providerVars, appVars, paneVars, transportVars, childVars, histVars, stack, ret, seen, opsBegun, active>>

\* ------------------------------------------------------------------- Start
\* sync.Once: the body runs for the first caller only.
OnceFreshByFlag == ~started
OnceFresh == once = "fresh"

\* What an unsynchronized read of t.started may give goroutine c: the value
\* written, or for a goroutine other than the writer the value before it.
StartedReads(c) == IF c = onceOwner THEN {started} ELSE {started, FALSE}

\* What an unsynchronized read of t.cmd.Process != nil may give goroutine c.
ProcessReadsNonNil(c) == {TRUE}
ProcessReads(c) ==
  IF c = onceOwner THEN {process \in {"running", "exited", "killed"}}
  ELSE {process \in {"running", "exited", "killed"}, FALSE}

\* t.startOnce.Do(func() {...}) in a Start on the stack s of c: enter the
\* body, wait for the goroutine that is in it, or find it done and return the
\* fresh startErr, which is nil.
OnceDo(c, s) ==
  IF OnceFresh
  THEN /\ once' = "running"
       /\ onceOwner' = c
       /\ stack' = [stack EXCEPT ![c] = s \o <<NewFrame("Start", "spawn", "")>>]
       /\ event' = {}
       /\ UNCHANGED ret
  ELSE /\ once = "done"
       /\ ReturnFrom(c, s, NewFrame("Start", "do", ""), 0, <<>>, Ok(Nil))
       /\ UNCHANGED <<once, onceOwner>>

\* A goroutine calls t.Start().
Start(c) ==
  /\ MayInvoke(c)
  /\ Invoked(c)
  /\ OnceDo(c, <<>>)
  /\ UNCHANGED <<providerVars, appVars, paneVars, started, process, mu, reqID, stdinOpen, stdinLog, childVars,
                 histVars, seen, ctxDone>>

\* What the Call made by initialize reads in t.started: its own goroutine has
\* just written true.
OwnStartedReadsStale == {FALSE}
OwnStartedReads == {TRUE}

\* The frames a Call begins with on reading v in t.started: on to the lock,
\* or into t.Start() first.
CallFrames(v, method) ==
  IF v THEN <<NewFrame("Call", "lock", method)>>
  ELSE <<NewFrame("Call", "afterStart", method), NewFrame("Start", "do", "")>>

\* t.cmd.Start(); on success t.started = true and t.initialize() is called,
\* which calls t.Call(ctx, "initialize", initParams); on failure the once
\* body ends and Start returns startErr.
StartSpawn(c) ==
  /\ At(c, "Start", "spawn")
  /\ spawnCount' = spawnCount + 1
  /\ \E ok \in BOOLEAN :
       IF ok
       THEN /\ process' = "running"
            /\ started' = TRUE
            /\ initCount' = initCount + 1
            /\ \E v \in OwnStartedReads :
                 stack' = [stack EXCEPT ![c] =
                   SetPc(@, "afterInit")
                     \o <<NewFrame("initialize", "afterCall", "")>>
                     \o CallFrames(v, "initialize")]
            /\ event' = {}
            /\ UNCHANGED <<once, startOutcome, ret>>
       ELSE /\ process' = "failed"
            /\ once' = "done"
            /\ startOutcome' = "err"
            /\ Return(c, Fail(<<"failed to start MCP server">>))
            /\ UNCHANGED <<started, initCount>>
  /\ UNCHANGED <<providerVars, appVars, paneVars, onceOwner, mu, reqID, stdinOpen, stdinLog, childVars, dropped,
                 delivered, readFailed, rpcFailed, seen, ctxDone, opsBegun, active,
                 closeReturned>>

\* initialize(): t.mu.Lock(), write notifications/initialized, t.mu.Unlock(),
\* return the write's error.
InitNotify(c) ==
  /\ At(c, "initialize", "notify")
  /\ mu = Free
  /\ IF Writable
     THEN /\ stdinLog' = Append(stdinLog, NotificationMsg("notifications/initialized"))
          /\ Return(c, Ok(Nil))
     ELSE /\ Return(c, Fail(<<"write failed">>))
          /\ UNCHANGED stdinLog
  /\ UNCHANGED <<providerVars, appVars, paneVars, started, process, once, onceOwner, mu, reqID, stdinOpen,
                 childVars, histVars, seen, ctxDone, opsBegun, active>>

\* The once body ends: startErr is set from initialize's error; Start returns it.
StartAfterInit(c) ==
  /\ At(c, "Start", "afterInit")
  /\ once' = "done"
  /\ LET v == IF IsErr(ret[c])
              THEN Wrap("failed to initialize MCP connection", ret[c])
              ELSE Ok(Nil) IN
       /\ startOutcome' = IF IsErr(v) THEN "err" ELSE "ok"
       /\ Return(c, v)
  /\ UNCHANGED <<providerVars, appVars, paneVars, started, process, onceOwner, mu, reqID, stdinOpen, stdinLog,
                 childVars, dropped, delivered, readFailed, rpcFailed, spawnCount,
                 initCount, seen, ctxDone, opsBegun, active, closeReturned>>

\* A Start called by a Call reaches t.startOnce.Do.
CallStart(c) ==
  /\ At(c, "Start", "do")
  /\ OnceDo(c, Pop(stack[c]))
  /\ UNCHANGED <<providerVars, appVars, paneVars, started, process, mu, reqID, stdinOpen, stdinLog, childVars,
                 histVars, seen, ctxDone, opsBegun, active>>

\* -------------------------------------------------------------------- Call
\* A goroutine calls t.Call(ctx, method, params):
\* if !t.started { if err := t.Start(); err != nil { return nil, err } }
Call(c) ==
  /\ MayInvoke(c)
  /\ Invoked(c)
  /\ \E v \in StartedReads(c) :
       stack' = [stack EXCEPT ![c] = CallFrames(v, "tools/call")]
  /\ ctxDone' = [ctxDone EXCEPT ![c] = FALSE]
  /\ event' = {}
  /\ UNCHANGED <<providerVars, appVars, paneVars, transportVars, childVars, histVars, ret, seen>>

\* sync.Mutex: Lock returns only when no goroutine holds the mutex.
MutexAlwaysFree == TRUE
MutexFree == mu = Free

\* t.mu.Lock()
CallLock(c) ==
  /\ At(c, "Call", "lock")
  /\ MutexFree
  /\ mu' = c
  /\ stack' = [stack EXCEPT ![c] = SetPc(@, "write")]
  /\ event' = {}
  /\ UNCHANGED <<providerVars, appVars, paneVars, started, process, once, onceOwner, reqID, stdinOpen, stdinLog,
                 childVars, histVars, ret, seen, ctxDone, opsBegun, active>>

\* atomic.AddInt64(&t.reqID, 1)
NextIDStale == IF reqID = 0 THEN 1 ELSE reqID
NextID == reqID + 1

\* defer t.mu.Unlock(): the mutex stays with the Call after the write.
ReleasedAfterWrite(c) == Free
HeldAfterWrite(c) == c

\* json.Marshal(req): the params of the handshake always marshal, those a
\* caller passes may not.
Marshals(method) == IF method = "initialize" THEN {TRUE} ELSE BOOLEAN

\* Allocate the id, marshal the request, write it to stdin.
CallWrite(c) ==
  /\ At(c, "Call", "write")
  /\ reqID' = NextID
  /\ seen' = [seen EXCEPT ![c] = <<>>]
  /\ \E mok \in Marshals(Top(c).method) :
       IF ~mok
       THEN /\ mu' = Free
            /\ ReturnCall(c, NextID, <<>>, Fail(<<"failed to marshal request">>))
            /\ ctxDone' = [ctxDone EXCEPT ![c] = FALSE]
            /\ UNCHANGED stdinLog
       ELSE IF ~Writable
       THEN /\ mu' = Free
            /\ ReturnCall(c, NextID, <<>>, Fail(<<"failed to write request", "write failed">>))
            /\ ctxDone' = [ctxDone EXCEPT ![c] = FALSE]
            /\ UNCHANGED stdinLog
       ELSE /\ mu' = HeldAfterWrite(c)
            /\ stdinLog' = Append(stdinLog, RequestMsg(NextID, Top(c).method))
            /\ stack' = [stack EXCEPT ![c] = [@ EXCEPT ![Len(@)].pc = "read", ![Len(@)].id = NextID]]
            /\ event' = {}
            /\ UNCHANGED <<ret, ctxDone>>
  /\ UNCHANGED <<providerVars, appVars, paneVars, started, process, once, onceOwner, stdinOpen, childVars,
                 histVars, opsBegun, active>>

\* return nil, resp.Error
RpcErrorLosesCode(resp) == Value(Nil, <<"JSON-RPC error">>, 0, resp.Message)
RpcError(resp) == Value(Nil, <<"JSON-RPC error">>, resp.Code, resp.Message)

\* What one pass of the read loop does with a line: skip it, or return.
Skip == [done |-> FALSE, val |-> Ok(Nil)]
Done(v) == [done |-> TRUE, val |-> v]
ReadStepStrict(line, id) ==
  LET resp == Unmarshal(line) IN
    IF ~resp.ok THEN Done(Fail(<<"failed to parse response">>))
    ELSE IF resp.ID = 0 /\ resp.Result = Nil /\ ~resp.HasError THEN Skip
    ELSE IF resp.ID = id
         THEN IF resp.HasError THEN Done(RpcError(resp)) ELSE Done(Ok(resp.Result))
    ELSE Skip
ReadStep(line, id) ==
  LET resp == Unmarshal(line) IN
    IF ~resp.ok THEN Skip
    ELSE IF resp.ID = 0 /\ resp.Result = Nil /\ ~resp.HasError THEN Skip
    ELSE IF resp.ID = id
         THEN IF resp.HasError THEN Done(RpcError(resp)) ELSE Done(Ok(resp.Result))
    ELSE Skip

\* return nil, fmt.Errorf("failed to read response: %w", err)
ReadErrorSwallowed == Ok(Nil)
ReadError == Fail(<<"failed to read response", "EOF">>)

\* The line is the answer the child gave to a request.
IsAnswer(line) ==
  /\ line.id \in answered
  /\ line \in {ResultLine(line.id, ResultFor(line.id)), ErrorLine(line.id, ErrorFor(line.id))}

\* defer t.mu.Unlock(): the mutex is released when Call returns v.
UnlockExceptOnRpcError(c, v) == IF v.err = <<"JSON-RPC error">> THEN c ELSE Free
UnlockOnReturn(c, v) == Free

\* One pass of the read loop: t.stdout.ReadBytes('\n') gives the next line of
\* the child's output, blocks while there is none, fails at end of file.
ReadLoop(c) ==
  /\ At(c, "Call", "read")
  /\ IF stdout # <<>>
     THEN LET line == Head(stdout)
              step == ReadStep(line, Top(c).id) IN
            /\ stdout' = Tail(stdout)
            /\ IF step.done
               THEN /\ ReturnCall(c, Top(c).id, Append(seen[c], line), step.val)
                    /\ mu' = UnlockOnReturn(c, step.val)
                    /\ seen' = [seen EXCEPT ![c] = <<>>]
                    /\ ctxDone' = [ctxDone EXCEPT ![c] = FALSE]
                    /\ delivered' = delivered \cup {<<line.id, c>>}
                    /\ UNCHANGED dropped
               ELSE /\ seen' = [seen EXCEPT ![c] = Append(@, line)]
                    /\ dropped' = (dropped \/ IsAnswer(line))
                    /\ event' = {}
                    /\ UNCHANGED <<stack, ret, mu, ctxDone, delivered>>
            /\ UNCHANGED readFailed
     ELSE /\ StdoutEOF
          /\ readFailed' = TRUE
          /\ ReturnCall(c, Top(c).id, seen[c], ReadError)
          /\ mu' = UnlockOnReturn(c, ReadError)
          /\ seen' = [seen EXCEPT ![c] = <<>>]
          /\ ctxDone' = [ctxDone EXCEPT ![c] = FALSE]
          /\ UNCHANGED <<stdout, dropped, delivered>>
  /\ UNCHANGED <<providerVars, appVars, paneVars, started, process, once, onceOwner, reqID, stdinOpen, stdinLog,
                 answered, rogue, noiseCount, spawnCount, initCount, startOutcome,
                 opsBegun, active, closeReturned>>

\* The read loop as the callers of Spec run it.
CallRead(c) == ReadLoop(c) /\ UNCHANGED rpcFailed

\* The read loop, noting in rpcFailed that a Call made by a caller (not the
\* handshake's) returns the error object of its response.
CallReadNoting(c) ==
  /\ ReadLoop(c)
  /\ rpcFailed' = (rpcFailed \/ \E e \in event' :
                     /\ e.fn = "Call"
                     /\ e.method = "tools/call"
                     /\ e.ret.err = <<"JSON-RPC error">>)

\* ------------------------------------------------------------------- Close
\* A goroutine calls t.Close():
\* if t.cmd != nil && t.cmd.Process != nil { t.stdin.Close(); return t.cmd.Process.Kill() }
\* Kill gives an error or not when the process has already ended.
Close(c) ==
  /\ MayInvokeClose(c)
  /\ opsBegun' = IF stdinOpen THEN opsBegun + 1 ELSE opsBegun
  /\ active' = IF c > active THEN c ELSE active
  /\ \E v \in ProcessReads(c) :
       IF v
       THEN /\ stdinOpen' = FALSE
            /\ process' = IF process = "running" THEN "killed" ELSE process
            /\ \E r \in (IF process = "running" THEN {Ok(Nil)}
                         ELSE {Ok(Nil), Fail(<<"os: process already finished">>)}) :
                 ReturnFrom(c, <<>>, NewFrame("Close", "kill", ""), 0, <<>>, r)
       ELSE /\ ReturnFrom(c, <<>>, NewFrame("Close", "return", ""), 0, <<>>, Ok(Nil))
            /\ UNCHANGED <<stdinOpen, process>>
  /\ closeReturned' = TRUE
  /\ UNCHANGED <<providerVars, appVars, paneVars, started, once, onceOwner, mu, reqID, stdinLog, childVars,
                 dropped, delivered, readFailed, rpcFailed, spawnCount, initCount,
                 startOutcome, seen, ctxDone>>

\* --------------------------------------------------------------- the child
\* A Call waits for a line.  The transport reads the child's lines in the
\* order written and only inside a Call, so a line the child writes at
\* another time is read, if ever, as if it had written it at such a time.
Awaited == stdout = <<>> /\ \E c \in Callers : At(c, "Call", "read")

\* The child answers a request it has read and not answered yet, with a
\* result or with an error object.
ChildRespond ==
  /\ process = "running"
  /\ Awaited
  /\ \E i \in WrittenIds \ answered :
       /\ answered' = answered \cup {i}
       /\ \E line \in {ResultLine(i, ResultFor(i)), ErrorLine(i, ErrorFor(i))} :
            stdout' = Append(stdout, line)
  /\ event' = {}
  /\ UNCHANGED <<providerVars, appVars, paneVars, transportVars, histVars, stack, ret, seen, ctxDone,
                 rogue, noiseCount, opsBegun, active>>

\* The child writes a line that is no response: diagnostics, or a notification.
ChildNoise ==
  /\ process = "running"
  /\ Awaited
  /\ noiseCount < MaxNoise
  /\ noiseCount' = noiseCount + 1
  /\ \E line \in {GarbageLine, NotificationLine} : stdout' = Append(stdout, line)
  /\ event' = {}
  /\ UNCHANGED <<providerVars, appVars, paneVars, transportVars, histVars, stack, ret, seen, ctxDone,
                 answered, rogue, opsBegun, active>>

\* The child writes a line with an id that answers no pending request: a
\* request of its own, or a response to a request it has answered or not got.
ChildStray ==
  /\ process = "running"
  /\ Awaited
  /\ noiseCount < MaxNoise
  /\ noiseCount' = noiseCount + 1
  /\ rogue' = TRUE
  /\ \E i \in 1..reqID :
       \E line \in {BareIdLine(i)} \cup
                   {ResultLine(j, "stray") : j \in {i} \cap (answered \cup (1..reqID \ WrittenIds))} :
         stdout' = Append(stdout, line)
  /\ event' = {}
  /\ UNCHANGED <<providerVars, appVars, paneVars, transportVars, histVars, stack, ret, seen, ctxDone,
                 answered, opsBegun, active>>

\* The child exits: its stdout reaches end of file, its stdin is a broken pipe.
ChildExit ==
  /\ process = "running"
  /\ process' = "exited"
  /\ event' = {}
  /\ UNCHANGED <<providerVars, appVars, paneVars, started, once, onceOwner, mu, reqID, stdinOpen, stdinLog,
                 childVars, histVars, stack, ret, seen, ctxDone, opsBegun, active>>

\* ---------------------------------------------------------- specification
Step(c) ==
  \/ StartSpawn(c) \/ InitNotify(c) \/ StartAfterInit(c)
  \/ CallStart(c) \/ CallLock(c) \/ CallWrite(c) \/ CallRead(c)

Invoke(c) == Start(c) \/ Call(c) \/ Close(c)

\* A child that keeps to the protocol.
Child == ChildRespond \/ ChildNoise \/ ChildExit

Next ==
  \/ \E c \in Callers : Invoke(c)
  \/ \E c \in Callers : Step(c)
  \/ Child

Spec == Init /\ [][Next]_vars

\* The same with the deadlines of the callers' contexts, under the fairness
\* of the Go scheduler: it runs every goroutine that can take a step; nothing
\* makes the child write or exit, or a caller invoke anything.
NextCtx ==
  \/ \E c \in Callers : Invoke(c)
  \/ \E c \in Callers : Step(c)
  \/ \E c \in Callers : CtxExpire(c)
  \/ Child

FairSpec == Init /\ [][NextCtx]_vars /\ \A c \in Callers : WF_vars(Step(c))

\* Start and Call alone, with a child that writes nothing but responses and,
\* while a Call waits for a line, in the end answers a request or exits,
\* under the fairness of the Go scheduler and of t.mu.
ChildAnswers ==
  /\ \E c \in Callers : At(c, "Call", "read")
  /\ (ChildRespond \/ ChildExit)

NextLive ==
  \/ \E c \in Callers : Start(c)
  \/ \E c \in Callers : Call(c)
  \/ \E c \in Callers : Step(c)
  \/ ChildRespond
  \/ ChildExit

LiveSpec ==
  /\ Init
  /\ [][NextLive]_vars
  /\ \A c \in Callers : WF_vars(Step(c))
  /\ WF_vars(ChildAnswers)

\* The same as Spec with the history of error objects kept, and a child that
\* writes nothing but responses.
StepNoting(c) ==
  \/ StartSpawn(c) \/ InitNotify(c) \/ StartAfterInit(c)
  \/ CallStart(c) \/ CallLock(c) \/ CallWrite(c) \/ CallReadNoting(c)

NextRpc ==
  \/ \E c \in Callers : Invoke(c)
  \/ \E c \in Callers : StepNoting(c)
  \/ ChildRespond
  \/ ChildExit

SpecRpc == Init /\ [][NextRpc]_vars

\* The same as Spec with a child that may also write lines whose id answers
\* nothing.
NextRogue == Next \/ ChildStray

SpecRogue == Init /\ [][NextRogue]_vars

\* ================================================================ providers
\* The provider methods of internal/mcp/providers (ThingsProvider.GetToday,
\* GCalProvider.GetEventsInRange) on top of Client.CallTool, and the two
\* decoders they hand the tool result to.

\* ------------------------------------------------------------------ strings
\* A string is the sequence of its characters.  The words the decoders look
\* for ("Title", "Start Date", ...) and the words of free text ("a", "n", ...)
\* stand as one element each; " ", ":" and the two checklist glyphs are
\* characters of their own.
Unchecked == "<U+25A1>"         \* the unchecked box glyph
Checked == "<U+2611>"           \* the checked box glyph

Min(S) == CHOOSE x \in S : \A y \in S : x <= y
Max(S) == CHOOSE x \in S : \A y \in S : x >= y

\* strings.TrimSpace
TrimSpace(str) ==
  LET keep == {i \in 1..Len(str) : str[i] # " "} IN
    IF keep = {} THEN <<>> ELSE SubSeq(str, Min(keep), Max(keep))

\* strings.HasPrefix, strings.TrimPrefix, strings.Contains
HasPrefix(str, prefix) ==
  Len(str) >= Len(prefix) /\ SubSeq(str, 1, Len(prefix)) = prefix
TrimPrefix(str, prefix) ==
  IF HasPrefix(str, prefix) THEN SubSeq(str, Len(prefix) + 1, Len(str)) ELSE str
Contains(str, ch) == \E i \in 1..Len(str) : str[i] = ch

\* strings.Index: the offset of the first ch in str, counted from 0; -1 if none.
Index(str, ch) ==
  LET at == {i \in 1..Len(str) : str[i] = ch} IN
    IF at = {} THEN 0 - 1 ELSE Min(at) - 1

\* A text is the sequence of its lines (the strings between its "\n").
\* strings.TrimSpace of a text: the blank lines at its ends go (and the
\* spaces at the ends of its first and last line, which parseTaskBlock trims
\* again with every line); the empty text is <<>>.
TrimSpaceText(text) ==
  LET keep == {i \in 1..Len(text) : TrimSpace(text[i]) # <<>>} IN
    IF keep = {} THEN <<>> ELSE SubSeq(text, Min(keep), Max(keep))

RECURSIVE SortedSeq(_)
SortedSeq(S) == IF S = {} THEN <<>> ELSE <<Min(S)>> \o SortedSeq(S \ {Min(S)})

\* strings.Split(text, "\n---\n"): line i is a separator when it is "---",
\* has a line before and a line after it, and the "\n" before it is not the
\* one that ended the separator before (matches do not overlap).
RECURSIVE IsSeparator(_, _)
IsSeparator(text, i) ==
  /\ 1 < i /\ i < Len(text)
  /\ text[i] = <<"---">>
  /\ ~IsSeparator(text, i - 1)

SplitBlocks(text) ==
  LET sp == SortedSeq({i \in 1..Len(text) : IsSeparator(text, i)})
      b == <<0>> \o sp \o <<Len(text) + 1>> IN
    [k \in 1..(Len(sp) + 1) |-> SubSeq(text, b[k] + 1, b[k + 1] - 1)]

\* time.Parse("2006-01-02", str): the dates that parse, and the day each is
\* (days counted from 2025-03-10).
DayOf(str) == IF str = "2025-03-10" THEN 0 ELSE 1
IsDate(str) == str \in {"2025-03-10", "2025-03-11"}


\* ------------------------------------------------- the delimited-text decoder
\* The string "": as a text, one empty line.
EmptyText == << <<>> >>

\* strings.TrimSpace(taskBlock)
TrimBlock(text) == IF TrimSpaceText(text) = <<>> THEN EmptyText ELSE TrimSpaceText(text)

\* Task{}: strings are "", slices and pointers nil.  Notes is a text.
EmptyTask ==
  [UUID |-> <<>>, Title |-> <<>>, Status |-> <<>>, Notes |-> EmptyText, Tags |-> <<>>,
   Deadline |-> Nil, StartDate |-> Nil, ProjectTitle |-> <<>>, ChecklistItems |-> <<>>]

\* The locals of parseTaskBlock: task, notesBuilder (the lines written to
\* it, each followed by "\n"), inNotes, inChecklist.
BlockStart ==
  [task |-> EmptyTask, notesBuilder |-> <<>>, inNotes |-> FALSE, inChecklist |-> FALSE]

\* strings.TrimSpace(notesBuilder.String())
NotesOf(st) == TrimBlock(st.notesBuilder \o EmptyText)

\* time.Parse("2006-01-02", value) into a *time.Time, left nil on error.
DateOrNil(value, old) == IF Len(value) = 1 /\ IsDate(value[1]) THEN value[1] ELSE old

\* The key/value switch of parseTaskBlock.
KeyValue(st, line) ==
  LET idx == Index(line, ":") IN
    IF idx > 0
    THEN LET key == TrimSpace(SubSeq(line, 1, idx))
             value == TrimSpace(SubSeq(line, idx + 2, Len(line))) IN
           CASE key = <<"Title">> -> [st EXCEPT !.task.Title = value]
             [] key = <<"UUID">> -> [st EXCEPT !.task.UUID = value]
             [] key = <<"Status">> -> [st EXCEPT !.task.Status = value]
             [] key = <<"Notes">> ->
                  [st EXCEPT !.inNotes = TRUE, !.notesBuilder = Append(@, value)]
             [] key = <<"Project">> -> [st EXCEPT !.task.ProjectTitle = value]
             [] key = <<"Tags">> ->
                  IF value # <<>> THEN [st EXCEPT !.task.Tags = <<value>>] ELSE st
             [] key = <<"Checklist">> -> [st EXCEPT !.inChecklist = TRUE]
             [] key = <<"Start Date">> ->
                  [st EXCEPT !.task.StartDate = DateOrNil(value, @)]
             [] key = <<"Deadline">> ->
                  [st EXCEPT !.task.Deadline = DateOrNil(value, @)]
             [] OTHER -> st
    ELSE st

\* The lines that end the multi-line notes.
EndsNotes(line) ==
  \/ HasPrefix(line, <<"Project", ":">>) \/ HasPrefix(line, <<"Tags", ":">>)
  \/ HasPrefix(line, <<"Checklist", ":">>) \/ HasPrefix(line, <<"Deadline", ":">>)

\* if inNotes {...}, then the key/value switch.
NotesOrKey(st, line) ==
  IF st.inNotes
  THEN IF EndsNotes(line)
       THEN KeyValue([st EXCEPT !.inNotes = FALSE, !.task.Notes = NotesOf(st)], line)
       ELSE [st EXCEPT !.notesBuilder = Append(@, line)]
  ELSE KeyValue(st, line)

\* The status of the checklist item of a line.
ItemStatusIncomplete(line) == "incomplete"
ItemStatus(line) ==
  IF HasPrefix(line, <<Checked>>) THEN "completed" ELSE "incomplete"

IsItemLine(line) == HasPrefix(line, <<Unchecked>>) \/ HasPrefix(line, <<Checked>>)

ChecklistItem(line) ==
  [Title |-> TrimSpace(TrimPrefix(TrimPrefix(line, <<Unchecked>>), <<Checked>>)),
   Status |-> ItemStatus(line)]

\* One pass of the loop over the lines of the block.
BlockLine(st, raw) ==
  LET line == TrimSpace(raw) IN
    IF st.inChecklist /\ IsItemLine(line)
    THEN [st EXCEPT !.task.ChecklistItems = Append(@, ChecklistItem(line))]
    ELSE IF st.inChecklist /\ line # <<>> /\ ~Contains(line, ":")
    THEN st
    ELSE NotesOrKey([st EXCEPT !.inChecklist = FALSE], line)

RECURSIVE BlockLines(_, _)
BlockLines(st, lines) ==
  IF lines = <<>> THEN st ELSE BlockLines(BlockLine(st, Head(lines)), Tail(lines))

parseTaskBlock(block) ==
  LET st == BlockLines(BlockStart, block) IN
    IF st.inNotes THEN [st.task EXCEPT !.Notes = NotesOf(st)] ELSE st.task

\* The task blocks parseTasks hands to parseTaskBlock: those of every text
\* block of the content, trimmed, the empty ones left out.
BlocksOfText(text) ==
  LET blocks == SplitBlocks(text)
      trimmed == [k \in 1..Len(blocks) |-> TrimBlock(blocks[k])] IN
    SelectSeq(trimmed, LAMBDA b : b # EmptyText)

RECURSIVE TaskBlocks(_)
TaskBlocks(content) ==
  IF content = <<>> THEN <<>>
  ELSE (IF Head(content).Type = "text" /\ Head(content).Text # EmptyText
        THEN BlocksOfText(Head(content).Text) ELSE <<>>)
       \o TaskBlocks(Tail(content))

\* if task.Title != "" { tasks = append(tasks, task) }
KeepsAll(task) == TRUE
Keeps(task) == task.Title # <<>>

\* parseTasks: the tasks (a nil and an empty slice are both <<>>).
parseTasks(result) ==
  LET blocks == TaskBlocks(result.Content)
      tasks == [k \in 1..Len(blocks) |-> parseTaskBlock(blocks[k])] IN
    SelectSeq(tasks, Keeps)


\* ------------------------------------------------ the structured JSON decoder
\* A time.Time: minutes since 2025-03-10T00:00Z and the location it is in
\* ("UTC", "Local", or "fixed": a fabricated zone at the offset parsed).
ZeroTime == [zero |-> TRUE, unix |-> 0, loc |-> "UTC"]
Time(unix, loc) == [zero |-> FALSE, unix |-> unix, loc |-> loc]

\* time.Parse("2006-01-02", str): midnight of the date in UTC.
ParseDate(str) ==
  IF IsDate(str) THEN [ok |-> TRUE, t |-> Time(DayOf(str) * 1440, "UTC")]
  ELSE [ok |-> FALSE, t |-> ZeroTime]

\* time.Parse(time.RFC3339, str) in a process whose local zone is z hours
\* from UTC: "Z" gives UTC, an offset that is the local zone's gives Local,
\* another offset a fabricated zone.
ParseRFC3339(str, z) ==
  CASE str = "2025-03-10T09:00:00Z" -> [ok |-> TRUE, t |-> Time(540, "UTC")]
    [] str = "2025-03-10T09:00:00-05:00" ->
         [ok |-> TRUE, t |-> Time(540 + 300, IF z = 0 - 5 THEN "Local" ELSE "fixed")]
    [] OTHER -> [ok |-> FALSE, t |-> ZeroTime]

\* The wall clock of a time in its location, in minutes since 2025-03-10T00:00
\* of that location; z: the offset of the local zone, in hours.
WallOf(t, z) ==
  t.unix + (IF t.loc = "Local" THEN z * 60 ELSE IF t.loc = "fixed" THEN 0 - 300 ELSE 0)

\* now := time.Now()
Now(unix) == Time(unix, "Local")

\* time.Date(now.Year(), now.Month(), now.Day(), 0, 0, 0, 0, now.Location())
StartOfDayUTC(now, z) == Time((now.unix \div 1440) * 1440, "Local")
StartOfDay(now, z) == Time((WallOf(now, z) \div 1440) * 1440 - z * 60, "Local")

\* t.Add(d), d in minutes
Add(t, d) == [t EXCEPT !.unix = @ + d]

\* t.Format("2006-01-02T15:04:05"): the date (days from 2025-03-10) and the
\* clock (minutes of the day) of t in its location, without the zone.
Format(t, z) == <<WallOf(t, z) \div 1440, WallOf(t, z) % 1440>>

\* The args GetEventsInRange gives to CallTool.
RangeArgs(start, end, z) ==
  [calendarId |-> "primary", timeMin |-> Format(start, z), timeMax |-> Format(end, z)]

\* A gcalEvent as the JSON gives it; object = FALSE: an element that is not
\* a JSON object.
GcalEvent(id, dateTime, date, displayName, email) ==
  [object |-> TRUE, ID |-> id, Summary |-> "standup", Location |-> "",
   Start |-> [DateTime |-> dateTime, Date |-> date],
   End |-> [DateTime |-> "", Date |-> date],
   Organizer |-> [DisplayName |-> displayName, Email |-> email]]
NotAnObject ==
  [object |-> FALSE, ID |-> "", Summary |-> "", Location |-> "",
   Start |-> [DateTime |-> "", Date |-> ""], End |-> [DateTime |-> "", Date |-> ""],
   Organizer |-> [DisplayName |-> "", Email |-> ""]]

\* strings.Split(email, "@")[0]
EmailPrefix(email) == IF email = "bob@example.org" THEN "bob" ELSE email

\* The start (or end) time of an event: dateTime first, date if dateTime is
\* empty; a value that does not parse leaves the zero time.
StartOf(when, z) ==
  IF when.DateTime # ""
  THEN [t |-> ParseRFC3339(when.DateTime, z).t, allDay |-> FALSE]
  ELSE IF when.Date # ""
  THEN [t |-> ParseDate(when.Date).t, allDay |-> ParseDate(when.Date).ok]
  ELSE [t |-> ZeroTime, allDay |-> FALSE]

\* The CalendarEvent made of a gcalEvent.
Convert(ge, z) ==
  [ID |-> ge.ID, Title |-> ge.Summary, Location |-> ge.Location,
   StartTime |-> StartOf(ge.Start, z).t,
   AllDay |-> StartOf(ge.Start, z).allDay,
   EndTime |-> StartOf(ge.End, z).t,
   Calendar |-> IF ge.Organizer.DisplayName # "" THEN ge.Organizer.DisplayName
                ELSE IF ge.Organizer.Email # "" THEN EmailPrefix(ge.Organizer.Email)
                ELSE "Primary"]

\* The JSON texts: shape "array" is the array of events, "wrapped" the object
\* {"events": events}, "object" an object without events, "scalar" another
\* JSON value, "null" the JSON null, "notjson" no JSON at all, "empty" the
\* empty string.
\* bytes: the bytes of the text as truncate sees them (what they spell is in
\* shape and events).
Bytes(n) == [i \in 1..n |-> "x"]
Payload(shape, events) ==
  [shape |-> shape, events |-> events,
   bytes |-> IF shape = "empty" THEN <<>> ELSE Bytes(2)]
LongPayload(shape, n) == [shape |-> shape, events |-> <<>>, bytes |-> Bytes(n)]

\* truncate(s, max): s[:max] + "..." when s is longer than max.
PreviewMax == 200
Ellipsis == <<".", ".", ".">>
truncateNever(s, max) == s
truncate(s, max) == IF Len(s) <= max THEN s ELSE SubSeq(s, 1, max) \o Ellipsis

\* json.Unmarshal(text, &gcalEvents) and json.Unmarshal(text, &wrapped): an
\* element that is not an object is an error.
AllObjects(events) == \A i \in 1..Len(events) : events[i].object
UnmarshalArray(text) ==
  [ok |-> \/ text.shape = "array" /\ AllObjects(text.events)
          \/ text.shape = "null",
   events |-> text.events]
UnmarshalWrappedNever(text) == [ok |-> FALSE, events |-> <<>>]
UnmarshalWrapped(text) ==
  [ok |-> text.shape \in {"wrapped", "object", "null"} /\ AllObjects(text.events),
   events |-> IF text.shape = "wrapped" THEN text.events ELSE <<>>]

\* What a decoder returns: the records, the error, and whether a decoder ran.
\* blocks: for parseTasks, every task block given to parseTaskBlock with the
\* task it returned.
\* excerpt: the text a decode error carries after "(text: ".
Records(recs) ==
  [records |-> recs, err |-> NoErr, code |-> 0, msg |-> "", decoded |-> TRUE,
   blocks |-> <<>>, excerpt |-> <<>>]
DecodeError(err, excerpt) ==
  [records |-> <<>>, err |-> err, code |-> 0, msg |-> "", decoded |-> TRUE,
   blocks |-> <<>>, excerpt |-> excerpt]

\* The first text block of the content.
FirstBlockText(content) ==
  IF content = <<>> THEN Payload("empty", <<>>) ELSE Head(content).Text
RECURSIVE FirstText(_)
FirstText(content) ==
  IF content = <<>> THEN Payload("empty", <<>>)
  ELSE IF Head(content).Type = "text" THEN Head(content).Text
  ELSE FirstText(Tail(content))

\* GCalProvider.parseEvents in a process whose local zone is z.
parseEvents(result, z) ==
  LET text == FirstText(result.Content)
      direct == UnmarshalArray(text)
      wrapped == UnmarshalWrapped(text) IN
    IF text.shape = "empty" THEN Records(<<>>)
    ELSE IF ~direct.ok /\ ~wrapped.ok
    THEN DecodeError(<<"failed to parse calendar events", "json: cannot unmarshal">>,
                     truncate(text.bytes, PreviewMax))
    ELSE LET gcalEvents == IF direct.ok THEN direct.events ELSE wrapped.events IN
           Records([i \in 1..Len(gcalEvents) |-> Convert(gcalEvents[i], z)])


\* -------------------------------------------------------- client and methods
\* The raw results a tool call may bring: the JSON of a ToolResult with its
\* content, bytes that are no ToolResult, or nil (with an error).  A nil
\* *ToolResult is the same value.
TextBlock(text) == [Type |-> "text", Text |-> text]
ImageBlock(text) == [Type |-> "image", Text |-> text]
ToolResult(content) == [raw |-> "json", Content |-> content]
NotAToolResult == [raw |-> "garbage", Content |-> <<>>]
NoToolResult == [raw |-> "nil", Content |-> <<>>]

\* Client.CallTool: the transport's error as it is, the error of decoding the
\* result into a ToolResult, or the ToolResult.
CallTool(v) ==
  IF IsErr(v) THEN Value(NoToolResult, v.err, v.code, v.msg)
  ELSE IF v.res.raw # "json" THEN Value(NoToolResult, <<"json: cannot unmarshal">>, 0, "")
  ELSE Ok(v.res)

\* return nil, fmt.Errorf("<tool> failed: %w", err)
Failed(prefix, v) ==
  [records |-> <<>>, err |-> Wrap(prefix, v).err, code |-> Wrap(prefix, v).code,
   msg |-> Wrap(prefix, v).msg, decoded |-> FALSE, blocks |-> <<>>, excerpt |-> <<>>]

\* The errors the transport's Call returns, with a nil result.
CallErrors ==
  {ReadError,
   Fail(<<"failed to write request", "write failed">>),
   Fail(<<"failed to marshal request">>),
   Fail(<<"failed to start MCP server">>),
   Wrap("failed to initialize MCP connection", Wrap("initialize failed", ReadError)),
   RpcError(Unmarshal(ErrorLine(1, ErrorFor(1)))),
   RpcError(Unmarshal(ErrorLine(2, ErrorFor(2))))}
TransportErrors == {Value(NoToolResult, v.err, v.code, v.msg) : v \in CallErrors}

\* The lines of the texts of the task tools.
TaskLines ==
  {<<"Title", ":", " ", "a">>,
   <<"Title", ":", " ">>,
   <<" ", "Title", " ", ":", "b", " ">>,
   <<"UUID", ":", " ", "u">>,
   <<"Status", ":", " ", "open">>,
   <<"Notes", ":", " ", "n">>,
   <<"Project", ":", " ", "p">>,
   <<"Tags", ":", " ", "t">>,
   <<"Checklist", ":">>,
   <<"Start Date", ":", " ", "2025-03-10">>,
   <<"Deadline", ":", " ", "2025-03-11">>,
   <<Unchecked, " ", "a">>,
   <<Checked, " ", "b">>,
   <<Checked, " ", "c", ":", "d">>,
   <<"b">>,
   <<"---">>,
   <<>>}
TaskTexts == UNION {[1..n -> TaskLines] : n \in 1..MaxLines}

TaskResults ==
  {ToolResult(<<TextBlock(t)>>) : t \in TaskTexts}
    \cup {ToolResult(<<>>),
          ToolResult(<<ImageBlock(EmptyText), TextBlock(<<<<"Title", ":", " ", "a">>>>),
                       TextBlock(<<<<"Title", ":", " ", "a">>>>)>>),
          NotAToolResult}

\* The elements of the lists of the calendar tool.
GcalElements ==
  {GcalEvent("evt", dt, d, "", "bob@example.org") :
     dt \in {"", "2025-03-10T09:00:00-05:00", "2025-03-10T09:00:00Z", "half past nine"},
     d \in {"", "2025-03-10", "tomorrow"}}
    \cup {GcalEvent("evt", "", "2025-03-11", "Work", ""),
          GcalEvent("evt", "", "2025-03-11", "", ""),
          NotAnObject}
\* The lengths of the texts that are no list of events.
PayloadLengths == {1, PreviewMax - 1, PreviewMax} \cup (PreviewMax + 1)..(PreviewMax + MaxExcess)

EventLists == UNION {[1..n -> GcalElements] : n \in 0..MaxEvents}

EventResults ==
  {ToolResult(<<TextBlock(Payload(shape, E))>>) :
     shape \in {"array", "wrapped"}, E \in EventLists}
    \cup {ToolResult(<<TextBlock(Payload(shape, <<>>))>>) :
            shape \in {"object", "scalar", "null", "notjson", "empty"}}
    \cup {ToolResult(<<TextBlock(LongPayload(shape, n))>>) :
            shape \in {"scalar", "notjson"}, n \in PayloadLengths}
    \cup {ToolResult(<<>>),
          ToolResult(<<ImageBlock(Payload("scalar", <<>>)), TextBlock(Payload("array", <<>>))>>),
          ToolResult(<<TextBlock(Payload("empty", <<>>)), TextBlock(Payload("notjson", <<>>))>>),
          ToolResult(<<ImageBlock(Payload("array", <<>>)), ImageBlock(Payload("array", <<>>))>>),
          NotAToolResult}

Tools == {"get_today", "list-events"}
Zones == {0 - 5, 0, 2}
RepliesOf(t) ==
  TransportErrors \cup
    {Ok(r) : r \in IF t = "get_today" THEN TaskResults ELSE EventResults}

callerVars == <<stack, ret, seen, ctxDone, event, opsBegun, active>>

\* The calls of the range methods: at the first and the last minute of a
\* day, and in between.
Instants == {d * 1440 + m : d \in 0..1, m \in {0, 1, 719, 1439}}
Requests ==
  {[method |-> "GetTodayEvents", now |-> u, days |-> 0] : u \in Instants}
    \cup {[method |-> "GetUpcomingEvents", now |-> u, days |-> d] :
            u \in Instants, d \in (0 - 1)..MaxDays}
NoRequest == [method |-> "", now |-> 0, days |-> 0]
NoArgs == [calendarId |-> "", timeMin |-> <<>>, timeMax |-> <<>>]

\* Either a provider method has called Client.CallTool and the transport's
\* Call has returned, or a range method of the calendar has just been called.
ProviderInit ==
  /\ TransportInit
  /\ AppIdle
  /\ tool \in Tools
  /\ zone \in (IF tool = "list-events" THEN Zones ELSE {0})
  /\ toolResult = Ok(Nil)
  /\ out = Ok(Nil)
  /\ args = NoArgs
  /\ \/ /\ phase = "called"
        /\ reply \in RepliesOf(tool)
        /\ request = NoRequest
     \/ /\ phase = "asked"
        /\ tool = "list-events"
        /\ reply \in {Ok(ToolResult(<<>>)), Ok(NotAToolResult)}
        /\ request \in Requests

\* GCalProvider.GetTodayEvents up to the call of CallTool in GetEventsInRange.
GetTodayEvents ==
  /\ phase = "asked"
  /\ request.method = "GetTodayEvents"
  /\ LET startOfDay == StartOfDay(Now(request.now), zone)
         endOfDay == Add(startOfDay, 24 * 60) IN
       args' = RangeArgs(startOfDay, endOfDay, zone)
  /\ phase' = "called"
  /\ UNCHANGED <<transportVars, childVars, histVars, callerVars, paneVars, appVars, tool, zone, reply,
                 toolResult, out, request>>

\* GCalProvider.GetUpcomingEvents up to the call of CallTool in GetEventsInRange.
GetUpcomingEvents ==
  /\ phase = "asked"
  /\ request.method = "GetUpcomingEvents"
  /\ LET startOfDay == StartOfDay(Now(request.now), zone)
         endDate == Add(startOfDay, request.days * 24 * 60) IN
       args' = RangeArgs(startOfDay, endDate, zone)
  /\ phase' = "called"
  /\ UNCHANGED <<transportVars, childVars, histVars, callerVars, paneVars, appVars, tool, zone, reply,
                 toolResult, out, request>>

\* Client.CallTool returns to the method.
ClientCallTool ==
  /\ phase = "called"
  /\ toolResult' = CallTool(reply)
  /\ phase' = "client"
  /\ UNCHANGED <<transportVars, childVars, histVars, callerVars, paneVars, appVars, tool, zone, reply, out,
                 request, args>>

\* ThingsProvider.GetToday returns.
GetToday ==
  /\ phase = "client"
  /\ tool = "get_today"
  /\ out' = IF IsErr(toolResult) THEN Failed("get_today failed", toolResult)
            ELSE LET blocks == TaskBlocks(toolResult.res.Content) IN
                   [Records(parseTasks(toolResult.res)) EXCEPT !.blocks =
                      [k \in 1..Len(blocks) |->
                         [block |-> blocks[k], task |-> parseTaskBlock(blocks[k])]]]
  /\ phase' = "done"
  /\ UNCHANGED <<transportVars, childVars, histVars, callerVars, paneVars, appVars, tool, zone, reply, toolResult,
                 request, args>>

\* GCalProvider.GetEventsInRange returns.
GetEventsInRange ==
  /\ phase = "client"
  /\ tool = "list-events"
  /\ out' = IF IsErr(toolResult) THEN Failed("list-events failed", toolResult)
            ELSE parseEvents(toolResult.res, zone)
  /\ phase' = "done"
  /\ UNCHANGED <<transportVars, childVars, histVars, callerVars, paneVars, appVars, tool, zone, reply, toolResult,
                 request, args>>

NextProvider ==
  \/ GetTodayEvents
  \/ GetUpcomingEvents
  \/ ClientCallTool
  \/ GetToday
  \/ GetEventsInRange

ProviderSpec == ProviderInit /\ [][NextProvider]_vars


\* ================================================================== the app
\* ------------------------------------------------------------ the root model
\* The layouts, in the order of the constants LayoutSingle .. LayoutGrid.
Layouts == {"single", "split-h", "split-v", "grid"}

\* A nil dereference or an index out of range in Update: the program ends.
Panic(a) == [a EXCEPT !.ended = "panic"]

\* pane.Focus() and pane.Blur() of the instance of type p.
SetFocused(a, p, v) == [a EXCEPT !.focused[p] = v]

\* m.activePanes[m.focusedPane] exists.
InRange(a) == a.focusedPane < Len(a.activePanes)
FocusedType(a) == a.activePanes[a.focusedPane + 1]

\* Model.focusNext
focusNext(a) ==
  IF Len(a.activePanes) = 0 THEN a
  ELSE IF ~InRange(a) THEN Panic(a)
  ELSE LET b == SetFocused(a, FocusedType(a), FALSE)
           n == (a.focusedPane + 1) % Len(a.activePanes) IN
         SetFocused([b EXCEPT !.focusedPane = n], a.activePanes[n + 1], TRUE)

\* Model.focusPrev
focusPrev(a) ==
  IF Len(a.activePanes) = 0 THEN a
  ELSE IF ~InRange(a) THEN Panic(a)
  ELSE LET b == SetFocused(a, FocusedType(a), FALSE)
           n == IF a.focusedPane - 1 < 0 THEN Len(a.activePanes) - 1
                ELSE a.focusedPane - 1 IN
         SetFocused([b EXCEPT !.focusedPane = n], a.activePanes[n + 1], TRUE)

\* Model.switchToPane(target)
switchToPane(a, target) ==
  IF target \notin a.paneInstances THEN a
  ELSE IF a.layout # "single" /\ Len(a.activePanes) > 1
  THEN IF ~InRange(a) THEN Panic(a)
       ELSE SetFocused([SetFocused(a, FocusedType(a), FALSE)
                          EXCEPT !.activePanes[a.focusedPane + 1] = target],
                       target, TRUE)
  ELSE IF Len(a.activePanes) > 0 /\ ~InRange(a) THEN Panic(a)
  ELSE LET b == IF Len(a.activePanes) > 0 THEN SetFocused(a, FocusedType(a), FALSE)
                ELSE a IN
         SetFocused([b EXCEPT !.activePanes = <<target>>, !.focusedPane = 0,
                              !.layout = "single"],
                    target, TRUE)

\* Model.toggleSplit.  Leaving split-v, the instances are taken from the map
\* without a check: Focus() or Blur() of one that is missing is a call on a
\* nil interface.
toggleSplit(a) ==
  CASE a.layout = "single" ->
         LET b == [a EXCEPT !.layout = "split-h"] IN
           IF ~({"tasks", "calendar"} \subseteq a.paneInstances) THEN b
           ELSE [b EXCEPT !.activePanes = <<"tasks", "calendar">>,
                          !.focused = [p \in PaneTypes |-> p = "tasks"],
                          !.focusedPane = 0]
    [] a.layout = "split-h" -> [a EXCEPT !.layout = "split-v"]
    [] a.layout = "split-v" ->
         LET b == [a EXCEPT !.layout = "grid"] IN
           IF "tasks" \notin a.paneInstances THEN Panic(b)
           ELSE IF "calendar" \notin a.paneInstances
           THEN Panic(SetFocused(b, "tasks", TRUE))
           ELSE [b EXCEPT !.activePanes = <<"tasks", "calendar", "tasks", "calendar">>,
                          !.focused = [p \in PaneTypes |-> FALSE],
                          !.focusedPane = 0]
    [] a.layout = "grid" ->
         LET b == [a EXCEPT !.layout = "single"] IN
           IF Len(a.activePanes) = 0 THEN b
           ELSE IF ~InRange(a) THEN Panic(b)
           ELSE SetFocused([b EXCEPT !.activePanes = <<FocusedType(a)>>,
                                     !.focusedPane = 0],
                           FocusedType(a), TRUE)

\* Model.maximizePane
maximizePane(a) ==
  IF a.layout = "single"
  THEN IF a.previousLayout # "single"
       THEN toggleSplit([a EXCEPT !.layout = a.previousLayout])
       ELSE a
  ELSE LET b == [a EXCEPT !.previousLayout = a.layout, !.layout = "single"] IN
         IF Len(a.activePanes) > 0 /\ InRange(a)
         THEN SetFocused([b EXCEPT !.activePanes = <<FocusedType(a)>>,
                                   !.focusedPane = 0],
                         FocusedType(a), TRUE)
         ELSE b

\* The keys: those Update has a case for, and "j" for those it gives to the
\* focused pane.  "3" stands for the keys 3 to 6, whose panes do not exist,
\* "\\" also for "|", "q" also for ctrl+c.
Keys ==
  {"q", "tab", "shift+tab", "1", "2", "3", "\\", "ctrl+w", "o", "a", "enter",
   "c", "esc", "j"}

\* The pane a number key switches to.
RootTargetOf(k) ==
  CASE k = "1" -> "tasks" [] k = "2" -> "calendar" [] k = "3" -> "email"
    [] k = "4" -> "knowledge"
TargetOf(k) == IF k = "1" THEN "tasks" ELSE IF k = "2" THEN "calendar" ELSE "email"

\* Model.Update(tea.KeyMsg): the model it leaves.  A key that returns from
\* no case goes to the focused pane, which changes no field of the root model
\* (what the tasks pane does with it is TasksUpdateKey, below).
UpdateKey(a, k) ==
  CASE k = "q" -> [a EXCEPT !.ended = "quit"]
    [] k = "tab" -> focusNext(a)
    [] k = "shift+tab" -> focusPrev(a)
    [] k \in {"1", "2", "3"} -> switchToPane(a, TargetOf(k))
    [] k = "\\" -> toggleSplit(a)
    [] k = "ctrl+w" -> [a EXCEPT !.awaitingWindowCmd = TRUE]
    [] k = "o" /\ a.awaitingWindowCmd ->
         maximizePane([a EXCEPT !.awaitingWindowCmd = FALSE])
    [] k = "a" /\ a.aiModalVisible -> [a EXCEPT !.aiModalVisible = FALSE]
    [] k = "a" /\ ~a.aiModalVisible -> [a EXCEPT !.aiLoading = TRUE]
    [] k = "enter" /\ a.aiModalVisible /\ a.aiAction ->
         [a EXCEPT !.aiModalVisible = FALSE]
    [] k = "c" /\ a.aiModalVisible -> [a EXCEPT !.aiModalVisible = FALSE]
    [] k = "esc" /\ a.aiModalVisible -> [a EXCEPT !.aiModalVisible = FALSE]
    [] OTHER -> a

\* The key makes Update return the command of triggerAIAssist.
AsksAssistant(a, k) == k = "a" /\ ~a.aiModalVisible

\* The key makes Update call m.claudeClient.ClearSession().
ClearsSessionOnC(a, k) == k \in {"esc", "c"} /\ a.aiModalVisible
ClearsSession(a, k) == k = "esc" /\ a.aiModalVisible

\* Model.Update(AIResponseMsg)
UpdateAIResponse(a, msg) ==
  [a EXCEPT !.aiLoading = FALSE, !.aiAction = ~msg.err /\ msg.action,
            !.aiModalVisible = TRUE]

\* ------------------------------------------------- the assistant's client
\* The continuation tokens the CLI gives out; "" is no token.
SessionIDs == {"S1", "S2"}

\* How a run of the CLI ends: cmd.Run fails ("cmderr"), its output is no JSON
\* ("notjson"), it is a response with is_error ("apierr"), or a response
\* ("ok"); session: the session_id of the JSON; action: parseAction finds one
\* (in the text that comes with S1).
AskOutcomes ==
  {[kind |-> "cmderr", session |-> "", action |-> FALSE],
   [kind |-> "notjson", session |-> "", action |-> FALSE]}
    \cup {[kind |-> "apierr", session |-> s, action |-> FALSE] : s \in {"", "S2"}}
    \cup {[kind |-> "ok", session |-> s, action |-> s = "S1"] :
            s \in SessionIDs \cup {""}}

\* The Response Ask returns.
Response(o) ==
  [err |-> o.kind \in {"cmderr", "apierr"},
   SessionID |-> IF o.kind = "ok" THEN o.session ELSE "",
   action |-> o.action]
NoResponse == [err |-> FALSE, SessionID |-> "", action |-> FALSE]

\* c.sessionID after the run: if cliResp.SessionID != "" { c.sessionID = ... },
\* reached only by a response without is_error.
StoredAfter(stored, o) ==
  IF o.kind = "ok" /\ o.session # "" THEN o.session ELSE stored

\* The value Ask gives after --session-id, "" when it does not give the flag.
PassedFresh(stored, newSession) == ""
Passed(stored, newSession) == IF stored # "" /\ ~newSession THEN stored ELSE ""

\* A call of Ask: stage "called", "running" (the args are built, the CLI
\* runs with passed after --session-id) or "returned".
NewAsk(newSession) ==
  [newSession |-> newSession, stage |-> "called", passed |-> "", resp |-> NoResponse]

Running == app.ended = "no"
InFlight == BagCardinality(asks)
Replace(r, q) == (asks (-) SetToBag({r})) (+) SetToBag({q})
\* What is noted of a step of the client: its kind, its flavour, and the
\* token it passed or was given.
Event(kind, key, id) == [NoHist EXCEPT !.kind = kind, !.key = key, !.id = id]

\* What is noted of a key: the layout before a layout key, the modal and
\* c.sessionID before a key of the modal; the other keys are not told apart.
Noted(k) ==
  CASE k = "\\" -> [NoHist EXCEPT !.kind = "key", !.key = k, !.layout = app.layout]
    [] k \in {"esc", "c", "a"} ->
         [NoHist EXCEPT !.kind = "key", !.key = k, !.modal = app.aiModalVisible,
                        !.session = IF k = "esc" THEN sessionID ELSE ""]
    [] k \in {"o", "ctrl+w"} -> [NoHist EXCEPT !.kind = "key", !.key = k]
    [] OTHER -> [NoHist EXCEPT !.kind = "key"]

\* Ask up to cmd.Run(): the args are built from c.sessionID.
AskBegin(r) ==
  /\ Running
  /\ r \in BagToSet(asks)
  /\ r.stage = "called"
  /\ asks' = Replace(r, [r EXCEPT !.stage = "running",
                                  !.passed = Passed(sessionID, r.newSession)])
  /\ hist' = Event("ask-begin", IF r.newSession THEN "new" ELSE "",
                   Passed(sessionID, r.newSession))
  /\ UNCHANGED <<providerVars, transportVars, childVars, histVars, callerVars, paneVars,
                 app, sessionID, initPc>>

\* Ask from the end of cmd.Run() to its return.
AskEnd(r) ==
  /\ Running
  /\ r \in BagToSet(asks)
  /\ r.stage = "running"
  /\ \E o \in AskOutcomes :
       /\ sessionID' = StoredAfter(sessionID, o)
       /\ asks' = Replace(r, [r EXCEPT !.stage = "returned", !.passed = "",
                                       !.resp = Response(o)])
       /\ hist' = Event("ask-end", o.kind, o.session)
  /\ UNCHANGED <<providerVars, transportVars, childVars, histVars, callerVars, paneVars,
                 app, initPc>>

\* A caller of the client calls Ask(ctx, req).
CallAsk(newSession) ==
  /\ InFlight < MaxAsks
  /\ asks' = asks (+) SetToBag({NewAsk(newSession)})
  /\ hist' = Event("ask", "", "")
  /\ UNCHANGED <<providerVars, transportVars, childVars, histVars, callerVars, paneVars,
                 app, sessionID, initPc>>

\* A caller calls Continue(ctx, prompt): an error without a session, else
\* Ask(ctx, Request{Prompt: prompt}).
CallContinue ==
  /\ InFlight < MaxAsks
  /\ asks' = IF sessionID = "" THEN asks ELSE asks (+) SetToBag({NewAsk(FALSE)})
  /\ hist' = Event("continue", "", "")
  /\ UNCHANGED <<providerVars, transportVars, childVars, histVars, callerVars, paneVars,
                 app, sessionID, initPc>>

\* A caller calls ClearSession().
CallClearSession ==
  /\ sessionID' = ""
  /\ hist' = Event("clear", "", "")
  /\ UNCHANGED <<providerVars, transportVars, childVars, histVars, callerVars, paneVars,
                 app, asks, initPc>>

\* The caller of an Ask that has returned takes its Response.
AskReturn(r) ==
  /\ r \in BagToSet(asks)
  /\ r.stage = "returned"
  /\ asks' = asks (-) SetToBag({r})
  /\ hist' = Event("ask-return", "", r.resp.SessionID)
  /\ UNCHANGED <<providerVars, transportVars, childVars, histVars, callerVars, paneVars,
                 app, sessionID, initPc>>

NextClient ==
  \/ \E ns \in BOOLEAN : CallAsk(ns)
  \/ CallContinue
  \/ CallClearSession
  \/ \E r \in BagToSet(asks) : AskBegin(r)
  \/ \E r \in BagToSet(asks) : AskEnd(r)
  \/ \E r \in BagToSet(asks) : AskReturn(r)

ClientSpec == Init /\ [][NextClient]_vars

\* ------------------------------------------------------- the running app
\* The program has started: Init has returned the command of
\* initMCPProviders, which has not run yet.
AppInit ==
  /\ TransportInit
  /\ ProviderIdle
  /\ PaneIdle
  /\ app = NewModel
  /\ sessionID = ""
  /\ asks = EmptyBag
  /\ initPc = "start"
  /\ hist = NoHist

\* The key is Ctrl+w o on a layout that is not single (the focused pane is
\* maximized), or the Ctrl+w o that comes right after it.
Maximizes(k) == k = "o" /\ app.awaitingWindowCmd /\ app.layout # "single"
Restores(k) == k = "o" /\ app.awaitingWindowCmd /\ hist.trip = "maximized"

\* Update(tea.KeyMsg) for the key k, with the command it returns when that
\* is the one of triggerAIAssist.
Key(k) ==
  /\ Running
  /\ AsksAssistant(app, k) => InFlight < MaxAsks
  /\ app' = UpdateKey(app, k)
  /\ sessionID' = IF ClearsSession(app, k) THEN "" ELSE sessionID
  /\ asks' = IF AsksAssistant(app, k) THEN asks (+) SetToBag({NewAsk(FALSE)}) ELSE asks
  /\ hist' = [Noted(k) EXCEPT
                !.trip = IF Maximizes(k) THEN "maximized"
                         ELSE IF Restores(k) THEN "restored"
                         ELSE IF k = "ctrl+w" /\ hist.trip = "maximized" THEN "maximized"
                         ELSE "none",
                !.maximized = IF Maximizes(k) THEN app.layout
                              ELSE IF Restores(k) \/ (k = "ctrl+w" /\ hist.trip = "maximized")
                              THEN hist.maximized
                              ELSE "single",
                !.panes = IF Maximizes(k) THEN Len(app.activePanes)
                          ELSE IF Restores(k) \/ (k = "ctrl+w" /\ hist.trip = "maximized")
                          THEN hist.panes
                          ELSE 0]
  /\ UNCHANGED <<providerVars, transportVars, childVars, histVars, callerVars, paneVars, initPc>>

\* Update(AIResponseMsg) for the Ask that has returned.
AIResponse(r) ==
  /\ Running
  /\ r \in BagToSet(asks)
  /\ r.stage = "returned"
  /\ app' = UpdateAIResponse(app, r.resp)
  /\ asks' = asks (-) SetToBag({r})
  /\ hist' = Event("ai", "", r.resp.SessionID)
  /\ UNCHANGED <<providerVars, transportVars, childVars, histVars, callerVars, paneVars,
                 sessionID, initPc>>

\* The command of initMCPProviders, in its goroutine: a transport cannot be
\* created and it returns an ErrorMsg, or it creates the two panes and makes
\* the tasks pane the active one.
InitFail ==
  /\ Running
  /\ initPc = "start"
  /\ initPc' = "failed"
  /\ hist' = Event("init", "", "")
  /\ UNCHANGED <<providerVars, transportVars, childVars, histVars, callerVars, paneVars,
                 app, sessionID, asks>>

InitTasksPane ==
  /\ Running
  /\ initPc = "start"
  /\ initPc' = "tasks"
  /\ app' = [app EXCEPT !.paneInstances = @ \cup {"tasks"}]
  /\ hist' = Event("init", "", "")
  /\ UNCHANGED <<providerVars, transportVars, childVars, histVars, callerVars, paneVars,
                 sessionID, asks>>

InitCalendarPane ==
  /\ Running
  /\ initPc = "tasks"
  /\ initPc' = "calendar"
  /\ app' = [app EXCEPT !.paneInstances = @ \cup {"calendar"}]
  /\ hist' = Event("init", "", "")
  /\ UNCHANGED <<providerVars, transportVars, childVars, histVars, callerVars, paneVars,
                 sessionID, asks>>

InitActivePanes ==
  /\ Running
  /\ initPc = "calendar"
  /\ initPc' = "done"
  /\ app' = SetFocused([app EXCEPT !.activePanes = <<"tasks">>], "tasks", TRUE)
  /\ hist' = Event("init", "", "")
  /\ UNCHANGED <<providerVars, transportVars, childVars, histVars, callerVars, paneVars,
                 sessionID, asks>>

\* Update(tasks.TasksLoadedMsg, tasks.TaskCompletedMsg or
\* calendar.EventsLoadedMsg): the message goes to the pane instance of its
\* type, if there is one, and the instance is put back where it was; no field
\* of the root model changes.  (The fields of the tasks pane are followed by
\* TasksLoaded and TaskCompleted, below.)
DataMsg(p) ==
  /\ Running
  /\ hist' = Event("data", p, "")
  /\ UNCHANGED <<providerVars, transportVars, childVars, histVars, callerVars, paneVars,
                 app, sessionID, asks, initPc>>

\* The app with its panes and layouts: every key but the one that asks the
\* assistant, the data messages, and the command of initMCPProviders.
NextLayout ==
  \/ \E k \in Keys \ {"a"} : Key(k)
  \/ \E p \in PaneTypes : DataMsg(p)
  \/ InitFail
  \/ InitTasksPane
  \/ InitCalendarPane
  \/ InitActivePanes

LayoutSpec == AppInit /\ [][NextLayout]_vars

\* The same app once the command of initMCPProviders has run to its end
\* before any key is handled: both pane instances exist and the tasks pane
\* is the active, focused one.
ReadyInit ==
  /\ TransportInit
  /\ ProviderIdle
  /\ PaneIdle
  /\ initPc = "done"
  /\ app = [NewModel EXCEPT !.paneInstances = PaneTypes,
                            !.activePanes = <<"tasks">>,
                            !.focused = [p \in PaneTypes |-> p = "tasks"]]
  /\ sessionID = ""
  /\ asks = EmptyBag
  /\ hist = NoHist

NextReady ==
  \/ \E k \in Keys \ {"a"} : Key(k)
  \/ \E p \in PaneTypes : DataMsg(p)

ReadySpec == ReadyInit /\ [][NextReady]_vars

\* The app with its assistant, after the command of initMCPProviders has
\* failed: every key, and the calls of Ask made by triggerAIAssist.
AssistInit ==
  /\ TransportInit
  /\ ProviderIdle
  /\ PaneIdle
  /\ initPc = "failed"
  /\ app = NewModel
  /\ sessionID = ""
  /\ asks = EmptyBag
  /\ hist = NoHist

NextAssist ==
  \/ \E k \in Keys : Key(k)
  \/ \E r \in BagToSet(asks) : AskBegin(r)
  \/ \E r \in BagToSet(asks) : AskEnd(r)
  \/ \E r \in BagToSet(asks) : AIResponse(r)

AssistSpec == AssistInit /\ [][NextAssist]_vars

\* ------------------------------------------------------- the tasks pane
\* The commands of the pane: Refresh's fetch for the view mode it read, and
\* markComplete.
LoadCmd(v) == [kind |-> "load", view |-> v]
MarkCmd == [kind |-> "mark", view |-> ""]
Outstanding == BagCardinality(cmds)
Loads == {c \in BagToSet(cmds) : c.kind = "load"}

\* What a fetch gives back: an error, or a list of n tasks.
LoadResults == [err : BOOLEAN, n : 0..MaxTasks]

\* Model.Refresh: m.loading = true; the command is LoadCmd(m.viewMode).
Refresh(m) == [m EXCEPT !.loading = TRUE]

\* m.tasks[m.cursor]: an index out of range ends the program.
IndexTasks(m) == IF m.cursor < m.tasks.n THEN m ELSE [m EXCEPT !.ended = "panic"]

\* The keys of the tasks pane ("j" also for down, "k" for up, "x" for space).
PaneKeys == {"j", "k", "g", "G", "x", "d", "r"} \cup ViewKeys

\* tasks.Model.Update(tea.KeyMsg): the model it leaves.
TasksUpdateKey(m, k, focused) ==
  IF ~focused THEN m
  ELSE CASE k = "j" -> IF m.cursor < m.tasks.n - 1
                       THEN [m EXCEPT !.cursor = m.cursor + 1] ELSE m
         [] k = "k" -> IF m.cursor > 0 THEN [m EXCEPT !.cursor = m.cursor - 1] ELSE m
         [] k = "g" -> [m EXCEPT !.cursor = 0]
         [] k = "G" -> IF m.tasks.n > 0 THEN [m EXCEPT !.cursor = m.tasks.n - 1] ELSE m
         [] k \in {"x", "d"} -> IF m.tasks.n > 0 THEN IndexTasks(m) ELSE m
         [] k = "r" -> Refresh(m)
         [] k \in ViewKeys -> Refresh([m EXCEPT !.viewMode = ViewOf(k)])
         [] OTHER -> m

\* tasks.Model.Update(tea.KeyMsg): the commands it returns (none or one).
TasksKeyCmds(m, k, focused) ==
  IF ~focused THEN EmptyBag
  ELSE CASE k = "d" /\ m.tasks.n > 0 /\ m.cursor < m.tasks.n -> SetToBag({MarkCmd})
         [] k = "r" -> SetToBag({LoadCmd(m.viewMode)})
         [] k \in ViewKeys -> SetToBag({LoadCmd(ViewOf(k))})
         [] OTHER -> EmptyBag

\* The cursor after a list of n tasks has replaced m.tasks: brought back to
\* max(0, n-1) when it is beyond the list (and what it would be if it were
\* left alone).
KeepCursor(cursor, n) == cursor
ClampCursor(cursor, n) ==
  IF cursor >= n THEN (IF n - 1 > 0 THEN n - 1 ELSE 0) ELSE cursor

\* tasks.Model.Update(TasksLoadedMsg) for the fetch of view v with result res.
UpdateTasksLoaded(m, v, res) ==
  IF res.err THEN [m EXCEPT !.loading = FALSE, !.err = TRUE]
  ELSE [m EXCEPT !.loading = FALSE, !.err = FALSE,
                 !.tasks = [view |-> v, n |-> res.n],
                 !.cursor = ClampCursor(m.cursor, res.n)]

PaneRunning == Running /\ pane.ended = "no"

\* The pane's Update is called with the key k.
PaneKey(k) ==
  /\ PaneRunning
  /\ LET new == TasksKeyCmds(pane, k, app.focused["tasks"]) IN
       /\ Outstanding + BagCardinality(new) <= MaxCmds
       /\ cmds' = cmds (+) new
  /\ pane' = TasksUpdateKey(pane, k, app.focused["tasks"])
  /\ hist' = Event("pane-key", "", "")
  /\ UNCHANGED <<providerVars, transportVars, childVars, histVars, callerVars,
                 app, sessionID, asks, initPc>>

\* The pane's Focus() or Blur() is called.
PaneFocus(v) ==
  /\ PaneRunning
  /\ app' = SetFocused(app, "tasks", v)
  /\ hist' = Event("focus", "", "")
  /\ UNCHANGED <<providerVars, transportVars, childVars, histVars, callerVars,
                 paneVars, sessionID, asks, initPc>>

\* The command c of Refresh has run and its TasksLoadedMsg is handled; the
\* root model gives it to the instance of the tasks pane, focused or not.
TasksLoaded(c, res) ==
  /\ PaneRunning
  /\ "tasks" \in app.paneInstances
  /\ c \in Loads
  /\ pane' = UpdateTasksLoaded(pane, c.view, res)
  /\ cmds' = cmds (-) SetToBag({c})
  /\ hist' = Event(IF res.err THEN "loaded-err" ELSE "loaded", c.view, "")
  /\ UNCHANGED <<providerVars, transportVars, childVars, histVars, callerVars,
                 app, sessionID, asks, initPc>>

\* The command of markComplete has run and its TaskCompletedMsg is handled:
\* an error is kept; otherwise the pane refreshes.
TaskCompleted(failed) ==
  /\ PaneRunning
  /\ "tasks" \in app.paneInstances
  /\ MarkCmd \in BagToSet(cmds)
  /\ pane' = IF failed THEN [pane EXCEPT !.err = TRUE] ELSE Refresh(pane)
  /\ cmds' = (cmds (-) SetToBag({MarkCmd}))
               (+) (IF failed THEN EmptyBag ELSE SetToBag({LoadCmd(pane.viewMode)}))
  /\ hist' = Event("completed", "", "")
  /\ UNCHANGED <<providerVars, transportVars, childVars, histVars, callerVars,
                 app, sessionID, asks, initPc>>

\* The tasks pane by itself: its Update called with keys and with the
\* messages of its own commands, its Focus and Blur.
NextTasks ==
  \/ \E k \in PaneKeys : PaneKey(k)
  \/ \E v \in BOOLEAN : PaneFocus(v)
  \/ \E c \in Loads, res \in LoadResults : TasksLoaded(c, res)
  \/ \E failed \in BOOLEAN : TaskCompleted(failed)

TasksSpec == ReadyInit /\ [][NextTasks]_vars

\* Model.Update(tea.KeyMsg) returns from the case of the key k, so the key
\* does not reach the focused pane.
ReturnsFromCase(a, k) ==
  \/ k \in {"q", "tab", "shift+tab", "1", "2", "3", "4", "\\", "ctrl+w", "a"}
  \/ k = "o" /\ a.awaitingWindowCmd
  \/ k = "enter" /\ a.aiModalVisible /\ a.aiAction
  \/ k \in {"c", "esc"} /\ a.aiModalVisible

\* The type of the pane at m.activePanes[m.focusedPane] when its focused flag
\* is set, "" when there is no such pane.
FocusedPane(a) ==
  IF Len(a.activePanes) > 0 /\ InRange(a) /\ a.focused[FocusedType(a)]
  THEN FocusedType(a) ELSE ""

\* The key k goes on to the Update of the tasks pane.
RoutedToTasks(a, k) ==
  /\ ~ReturnsFromCase(a, k)
  /\ Len(a.activePanes) > 0
  /\ InRange(a)
  /\ FocusedType(a) = "tasks"

\* switchToPane ends in pane.Refresh() of the tasks pane.
SwitchRefreshes(a, k) ==
  /\ k \in {"1", "2", "3", "4"}
  /\ RootTargetOf(k) = "tasks"
  /\ "tasks" \in a.paneInstances
  /\ switchToPane(a, "tasks").ended = "no"

\* The keys given to the root model here: the number keys, the keys of the
\* tasks pane that the root has no case for, and the focus and layout keys.
RoutedKeys == {"1", "2", "3", "4", "tab", "\\", "j", "G", "d", "r"}

\* Model.Update(tea.KeyMsg) of the root model with the tasks pane behind it.
RootKey(k) ==
  /\ PaneRunning
  /\ app' = IF k \in {"1", "2", "3", "4"} THEN switchToPane(app, RootTargetOf(k))
            ELSE UpdateKey(app, k)
  /\ LET focused == app.focused["tasks"]
         new == IF RoutedToTasks(app, k) THEN TasksKeyCmds(pane, k, focused)
                ELSE IF SwitchRefreshes(app, k) THEN SetToBag({LoadCmd(pane.viewMode)})
                ELSE EmptyBag IN
       /\ Outstanding + BagCardinality(new) <= MaxCmds
       /\ cmds' = cmds (+) new
       /\ pane' = IF RoutedToTasks(app, k) THEN TasksUpdateKey(pane, k, focused)
                  ELSE IF SwitchRefreshes(app, k) THEN Refresh(pane)
                  ELSE pane
  /\ hist' = [Event("root-key", k, "") EXCEPT !.focus = FocusedPane(app)]
  /\ UNCHANGED <<providerVars, transportVars, childVars, histVars, callerVars,
                 sessionID, asks, initPc>>

\* The running app with its tasks pane: keys come through the root model.
NextRouted ==
  \/ \E k \in RoutedKeys : RootKey(k)
  \/ \E c \in Loads, res \in LoadResults : TasksLoaded(c, res)
  \/ \E failed \in BOOLEAN : TaskCompleted(failed)

RoutedSpec == ReadyInit /\ [][NextRouted]_vars


\* =================================================================== claims
\* Goroutine c is inside the section of Call between the lock and the return.
InSection(c) == At(c, "Call", "write") \/ At(c, "Call", "read")

\* A line the read loop is meant to pass over: malformed, or a notification.
IsNoiseLine(line) ==
  \/ ~line.json
  \/ line.id = NoID /\ line.result = Absent /\ line.error = <<>>

CallEvents == {e \in event : e.fn = "Call"}
LastLine(e) == e.lines[Len(e.lines)]
RequestsOnStdin == SelectSeq(stdinLog, LAMBDA m : m.kind = "request")

\* C1: at every instant at most one Call is between taking the lock and
\* returning, and that Call holds t.mu: from before the id is allocated and
\* the request written until the Call returns.
C1_OneCallInFlight ==
  /\ \A c1, c2 \in Callers : InSection(c1) /\ InSection(c2) => c1 = c2
  /\ \A c \in Callers : InSection(c) => mu = c

\* A Call waits for its response while another goroutine waits for the lock.
C1_Witness ==
  \E c1, c2 \in Callers :
    c1 # c2 /\ At(c1, "Call", "read") /\ At(c2, "Call", "lock") /\ mu = c1

\* C2: with a child that answers each request once, every Call that returns
\* because of a response got the child's answer to the id it allocated, no
\* answer is read and passed over, no response goes to two Calls, and when all
\* callers are done every answer the child gave has gone to a Call.
C2_EachCallerOwnResponse ==
  /\ \A e \in CallEvents :
        e.lines # <<>> /\ ~IsNoiseLine(LastLine(e)) =>
          /\ LastLine(e).id = e.id
          /\ LastLine(e) \in {ResultLine(e.id, ResultFor(e.id)), ErrorLine(e.id, ErrorFor(e.id))}
          /\ <<e.id, e.c>> \in delivered
  /\ ~dropped
  /\ \A p, q \in delivered : p[1] = q[1] => p = q
  /\ {p[1] : p \in delivered} \subseteq answered
  /\ (\A c \in Callers : Idle(c)) => answered = {p[1] : p \in delivered}

\* Two callers have each got the answer to their own request, the second
\* while it was the third request of the transport.
C2_Witness ==
  /\ \E e \in CallEvents : e.c = 2 /\ e.id = 3 /\ e.ret = Ok(ResultFor(3))
  /\ delivered = {<<1, 1>>, <<2, 1>>, <<3, 2>>}

C4_ResultVerbatim ==
  \A e \in CallEvents :
    e.lines # <<>> =>
      /\ IsNoiseLine(LastLine(e)) => e.ret = ReadError
      /\ (/\ \A i \in 1..(Len(e.lines) - 1) : IsNoiseLine(e.lines[i])
          /\ LastLine(e).json
          /\ LastLine(e).id = e.id
          /\ LastLine(e).result # Absent
          /\ LastLine(e).error = <<>>)
         => e.ret = Ok(LastLine(e).result)

\* A Call returns the result of its response after passing over a line.
C4_Witness ==
  \E e \in CallEvents :
    /\ Len(e.lines) = 2
    /\ e.lines[1] \in {GarbageLine, NotificationLine}
    /\ e.ret = Ok(ResultFor(e.id))

\* C5: when the line with the Call's id carries an error object, the Call
\* returns no result and the *JSONRPCError with that code and that message.
C5_ErrorVerbatim ==
  \A e \in CallEvents :
    e.lines # <<>> /\ LastLine(e).json /\ LastLine(e).id = e.id /\ LastLine(e).error # <<>> =>
      /\ e.ret.res = Nil
      /\ e.ret.err = <<"JSON-RPC error">>
      /\ e.ret.code = LastLine(e).error[1]
      /\ e.ret.msg = LastLine(e).error[2]

\* A Call returns the error object of its response.
C5_Witness ==
  \E e \in CallEvents :
    /\ e.method = "tools/call"
    /\ e.lines # <<>>
    /\ LastLine(e) = ErrorLine(e.id, ErrorFor(e.id))
    /\ e.ret = Value(Nil, <<"JSON-RPC error">>, ErrorFor(e.id)[1], ErrorFor(e.id)[2])

\* C6: the first message on the child's stdin is the initialize request and
\* the message after it is the initialized notification.
C6_HandshakeFirst ==
  /\ Len(stdinLog) >= 1 => stdinLog[1].kind = "request" /\ stdinLog[1].method = "initialize"
  /\ Len(stdinLog) >= 2 => stdinLog[2] = NotificationMsg("notifications/initialized")

\* C7: the child is spawned at most once and the handshake is made at most
\* once, whatever the first Start came to.
C7_StartAtMostOnce ==
  /\ spawnCount <= 1
  /\ initCount <= 1
  /\ Cardinality({i \in 1..Len(stdinLog) : stdinLog[i].method = "initialize"}) <= 1

\* After a Start that failed, a later Call got past Start to the lock.
C7_Witness ==
  /\ startOutcome = "err"
  /\ spawnCount = 1
  /\ \E e \in CallEvents : e.method = "tools/call" /\ e.id # 0

\* C8: every Start that returns once the once body has run returns what the
\* body came to: nil if it succeeded, an error if it failed.
C8_SecondStartSameOutcome ==
  \A e \in event :
    e.fn = "Start" /\ startOutcome # "none" => (IsErr(e.ret) <=> startOutcome = "err")

\* C9: a Call whose ctx is done while it waits for a line the child has not
\* written does not stay blocked: it returns.
C9_TimeoutReturns ==
  \A c \in Callers : (ctxDone[c] /\ At(c, "Call", "read")) ~> ~At(c, "Call", "read")

\* C10: once a read of the child's stdout has failed, every Call that
\* returns, the one that read included, returns an error, and no process
\* runs in place of the one that was spawned.
C10_ReadFailureIsFinal ==
  readFailed =>
    /\ \A e \in CallEvents : IsErr(e.ret)
    /\ spawnCount = 1
    /\ process # "running"

\* After a read failure a later Call has returned an error.
C10_Witness ==
  /\ readFailed
  /\ \E e \in CallEvents :
       /\ e.method = "tools/call"
       /\ e.ret = Fail(<<"failed to write request", "write failed">>)

\* C11: a Call that returns the error object of its response has released
\* t.mu and left nothing of the response unread, no answer of the child is
\* ever passed over, and once such a Call has returned, a Call whose own
\* response carries a result returns that result.
C11_UsableAfterRpcError ==
  /\ \A e \in CallEvents :
        e.ret.err = <<"JSON-RPC error">> => mu = Free /\ stdout = <<>>
  /\ ~dropped
  /\ rpcFailed =>
       \A e \in CallEvents :
         e.lines # <<>> /\ LastLine(e) = ResultLine(e.id, ResultFor(e.id))
           => e.ret = Ok(ResultFor(e.id))

\* After a caller's Call returned an error object, a caller's Call returns
\* the result the child gave it.
C11_Witness ==
  /\ rpcFailed
  /\ \E e \in CallEvents :
       /\ e.method = "tools/call"
       /\ e.lines = <<ResultLine(e.id, ResultFor(e.id))>>
       /\ e.ret = Ok(ResultFor(e.id))

\* C29: a Call that returns without error returns the result field of an
\* output line that carried the id the Call allocated and a result; no line
\* with another id, and no line with that id but neither result nor error,
\* makes a Call return without error.
C29_SuccessOnlyFromResult ==
  \A e \in CallEvents :
    e.ret.err = NoErr =>
      /\ e.lines # <<>>
      /\ LastLine(e).json
      /\ LastLine(e).id = e.id
      /\ LastLine(e).result # Absent
      /\ e.ret.res = LastLine(e).result

\* The part of C29 the code keeps: a line with another id than the one the
\* Call allocated never ends the Call.
C29_OtherIdPassedOver ==
  \A e \in CallEvents :
    e.ret.err \in {NoErr, <<"JSON-RPC error">>} =>
      e.lines # <<>> /\ LastLine(e).json /\ LastLine(e).id = e.id

\* C12: a Call made after Start has failed returns an error.
C12_FailedStartIsFatal ==
  \A e \in CallEvents : e.late => IsErr(e.ret)

\* C13: while the process was never spawned Close returns nil and stdin stays
\* open; once a Close has closed stdin the process is terminated and stays
\* so, and a further Close changes nothing of the transport.
C13_CloseIdempotent ==
  /\ [](/\ process \in {"none", "failed"} =>
             stdinOpen /\ \A e \in event : e.fn = "Close" => ~IsErr(e.ret)
        /\ ~stdinOpen => process \in {"killed", "exited"})
  /\ [][(~stdinOpen /\ \E c \in Callers : Close(c)) => UNCHANGED transportVars]_vars

\* A second Close has returned on a transport that was started and killed by
\* the first.
C13_Witness ==
  /\ started
  /\ process = "killed"
  /\ \E e \in event : e.fn = "Close" /\ e.again

\* C30: once a Close has returned the transport is closed for good, whatever
\* it was before: stdin is closed, no step spawns the child any more, and
\* every Call made from then on returns an error.
C30_CloseIsTerminal ==
  /\ [](closeReturned => ~stdinOpen)
  /\ [](\A e \in CallEvents : e.afterClose => IsErr(e.ret))
  /\ [][closeReturned => spawnCount' = spawnCount]_vars

\* The part of C30 the code keeps: a Call that finds stdin closed when it
\* comes to write its request returns an error.
C30_ClosedStdinFailsCall ==
  \A e \in CallEvents : e.afterClose /\ e.id # 0 /\ e.lines = <<>> /\ ~stdinOpen => IsErr(e.ret)

\* A Close has just returned while the Call of c waits for a line the child
\* has not written.
ClosedWhileReading(c) ==
  /\ \E e \in event : e.fn = "Close"
  /\ At(c, "Call", "read")
  /\ stdout = <<>>

ReadErrorReturned(c) ==
  \E e \in CallEvents : e.c = c /\ e.ret = ReadError

\* C31: Close never waits for t.mu: a goroutine that calls Close returns from
\* it whoever holds the lock; and a Call that was waiting for a response
\* when a Close returned then returns a read error.
C31_CloseUnblocksCall ==
  /\ [](\A c \in Callers : MayInvokeClose(c) => ENABLED Close(c))
  /\ \A c \in Callers : ClosedWhileReading(c) ~> ReadErrorReturned(c)

\* The part of C31 the code keeps: Close returns whoever holds the lock, and
\* a Call that was waiting for a response when a Close killed the child
\* returns a read error.
C31_KillUnblocksCall ==
  /\ [](\A c \in Callers : MayInvokeClose(c) => ENABLED Close(c))
  /\ \A c \in Callers :
       (ClosedWhileReading(c) /\ process = "killed") ~> ReadErrorReturned(c)

\* A goroutine inside Start or Call can take a step, or a Call waits for a
\* line of the running child.
CanProceed ==
  \/ \E c \in Callers : ENABLED Step(c)
  \/ \E c \in Callers : At(c, "Call", "read") /\ process = "running"

\* C32: Start and Call never wait for each other in a cycle, the Call of the
\* handshake inside Start included: while a goroutine is inside one of them
\* some goroutine can go on or waits for the child only; and with a child
\* that in the end answers or closes its stdout every Start and every Call
\* returns.
C32_NoDeadlock ==
  /\ []((\E c \in Callers : ~Idle(c)) => CanProceed)
  /\ \A c \in Callers : ~Idle(c) ~> Idle(c)

\* Every goroutine has returned after the Call of one took the lock, and got
\* the answer to id 1, while the other was in the handshake of Start.
C32_Witness ==
  /\ \A c \in Callers : Idle(c)
  /\ initCount = 1
  /\ startOutcome = "ok"
  /\ \E c \in Callers : c # onceOwner /\ <<1, c>> \in delivered
  /\ <<2, onceOwner>> \in delivered

\* ---------------------------------------------------- claims on the providers
TasksDecoded == phase = "done" /\ tool = "get_today" /\ out.decoded
EventsDecoded == phase = "done" /\ tool = "list-events" /\ out.decoded /\ ~IsErr(out)

\* The elements the calendar tool returned, as the JSON lists them.
SourceEvents == FirstText(reply.res.Content).events

\* C14: when the transport's Call returns an error, Client.CallTool returns
\* that error as it is with no result, and the provider method returns no
\* records and the same error (chain, code and message) under the name of the
\* tool that failed, without running the decoder.
C14_ErrorPropagates ==
  IsErr(reply) =>
    /\ phase \in {"client", "done"} => toolResult = reply
    /\ phase = "done" =>
         /\ out.records = <<>>
         /\ ~out.decoded
         /\ out.err = <<IF tool = "get_today" THEN "get_today failed"
                        ELSE "list-events failed">> \o reply.err
         /\ out.code = reply.code
         /\ out.msg = reply.msg

\* The calendar method has returned the error object of a response.
C14_Witness ==
  /\ phase = "done"
  /\ reply.err = <<"JSON-RPC error">>
  /\ out.err = <<"list-events failed", "JSON-RPC error">>
  /\ out.code = 7
  /\ out.msg = "tool failed"

\* A line that gives a title: the Title key and text after its colon.
GivesTitle(line) ==
  /\ Contains(line, "Title")
  /\ TrimSpace(SubSeq(line, Index(line, ":") + 2, Len(line))) # <<>>

\* C15: every task the text decoder returns has a non-empty title without
\* spaces at its ends; the tasks returned are those of the blocks that gave
\* a title, in the order of the blocks; a block without a line that gives a
\* title contributes nothing.
C15_TitledTasksOnly ==
  TasksDecoded =>
    LET titled == SelectSeq(out.blocks, LAMBDA b : b.task.Title # <<>>) IN
      /\ \A i \in 1..Len(out.records) :
            /\ out.records[i].Title # <<>>
            /\ TrimSpace(out.records[i].Title) = out.records[i].Title
      /\ out.records = [i \in 1..Len(titled) |-> titled[i].task]
      /\ \A k \in 1..Len(out.blocks) :
            (\A i \in 1..Len(out.blocks[k].block) : ~GivesTitle(out.blocks[k].block[i]))
              => out.blocks[k].task.Title = <<>>

\* Of two blocks the first has a blank title and is left out, the second is
\* returned.
C15_Witness ==
  /\ TasksDecoded
  /\ Len(out.blocks) = 2
  /\ out.blocks[1].block = <<<<"Title", ":", " ">>>>
  /\ Len(out.records) = 1
  /\ out.records[1].Title = <<"a">>

\* Line i of a block is in a checklist: a line before it starts with
\* "Checklist:" and the lines between are checklist items or other lines of
\* text without a colon.
InChecklist(lines, i) ==
  \E k \in 1..(i - 1) :
    /\ HasPrefix(TrimSpace(lines[k]), <<"Checklist", ":">>)
    /\ \A j \in (k + 1)..(i - 1) :
         LET l == TrimSpace(lines[j]) IN
           IsItemLine(l) \/ (l # <<>> /\ ~Contains(l, ":"))

ItemLines(lines) ==
  SortedSeq({i \in 1..Len(lines) : IsItemLine(TrimSpace(lines[i])) /\ InChecklist(lines, i)})

LooksLikeKeyValue(line) == Index(line, ":") > 0

ContinuationLine(st, raw) ==
  LET line == TrimSpace(raw) IN
    IF st.inChecklist /\ IsItemLine(line)
    THEN [st EXCEPT !.task.ChecklistItems = Append(@, ChecklistItem(line))]
    ELSE IF st.inChecklist /\ ~LooksLikeKeyValue(line)
    THEN st
    ELSE NotesOrKey([st EXCEPT !.inChecklist = FALSE], line)

RECURSIVE ContinuationLines(_, _)
ContinuationLines(st, lines) ==
  IF lines = <<>> THEN st
  ELSE ContinuationLines(ContinuationLine(st, Head(lines)), Tail(lines))

ContinuationTask(block) ==
  LET st == ContinuationLines(BlockStart, block) IN
    IF st.inNotes THEN [st.task EXCEPT !.Notes = NotesOf(st)] ELSE st.task

\* C28: checklist mode ends exactly at a line that looks like a key/value
\* pair, and that line is parsed as one; a non-empty line of the checklist
\* with neither glyph nor colon is passed over and the mode stays; a line
\* with a glyph in front and a colon in it is a checklist item.  So every
\* task is the one the decoder of the sentence gives for its block.
C28_ChecklistEnds ==
  TasksDecoded =>
    \A k \in 1..Len(out.blocks) :
      out.blocks[k].task = ContinuationTask(out.blocks[k].block)

\* The parts of C28 the code keeps: a glyph line with a colon in a checklist
\* is an item, and a checklist without an empty line decodes as the sentence
\* has it.
C28_GlyphWithColon ==
  TasksDecoded =>
    \A k \in 1..Len(out.blocks) :
      LET b == out.blocks[k].block IN
        /\ (\A i \in 1..Len(b) : TrimSpace(b[i]) # <<>>)
             => out.blocks[k].task = ContinuationTask(b)
        /\ (Len(b) >= 2 /\ b[1] = <<"Checklist", ":">> /\ b[2] = <<Checked, " ", "c", ":", "d">>)
             => /\ Len(out.blocks[k].task.ChecklistItems) >= 1
                /\ out.blocks[k].task.ChecklistItems[1] =
                     [Title |-> <<"c", ":", "d">>, Status |-> "completed"]

RecognizedKeys ==
  {"Title", "UUID", "Status", "Notes", "Project", "Tags", "Checklist", "Start Date", "Deadline"}
StartsWithKey(line) == Len(line) >= 2 /\ line[1] \in RecognizedKeys /\ line[2] = ":"

\* C17: no line after the first of a task's notes starts with a recognized
\* key: such a line ended the notes.
C17_NotesEndAtKey ==
  TasksDecoded =>
    \A k \in 1..Len(out.blocks) :
      \A i \in 2..Len(out.blocks[k].task.Notes) :
        ~StartsWithKey(out.blocks[k].task.Notes[i])

\* C18: every calendar event returned whose start the JSON gives (dateTime or
\* date) has a start time that was parsed, and every task returned has a
\* title.
C18_NoHalfPopulated ==
  /\ EventsDecoded =>
       \A i \in 1..Len(out.records) :
         (SourceEvents[i].Start.DateTime # "" \/ SourceEvents[i].Start.Date # "")
           => ~out.records[i].StartTime.zero
  /\ TasksDecoded => \A i \in 1..Len(out.records) : out.records[i].Title # <<>>

\* Midnight of the day of a date in the zone z hours from UTC.
LocalMidnight(date, z) == DayOf(date) * 1440 - z * 60

\* C19: an event with a start.date that is a date and no start.dateTime is
\* returned as an all-day event that starts at midnight of that date in the
\* local zone.
C19_AllDayLocalMidnight ==
  EventsDecoded =>
    \A i \in 1..Len(out.records) :
      SourceEvents[i].Start.DateTime = "" /\ IsDate(SourceEvents[i].Start.Date) =>
        /\ out.records[i].AllDay
        /\ ~out.records[i].StartTime.zero
        /\ out.records[i].StartTime.unix = LocalMidnight(SourceEvents[i].Start.Date, zone)

\* The same list in the other of the two forms, array and wrapped.
OtherForm(text) ==
  Payload(IF text.shape = "array" THEN "wrapped" ELSE "array", text.events)

\* C20: what the calendar method returns for a list of events given as
\* {"events": list} is what parseEvents returns for the list given as a
\* top-level array, and the reverse; for a list of objects it is no error
\* and one record for each element.
C20_WrappedSameAsArray ==
  (/\ phase = "done" /\ tool = "list-events" /\ ~IsErr(toolResult)
   /\ FirstText(reply.res.Content).shape \in {"array", "wrapped"}) =>
    LET text == FirstText(reply.res.Content) IN
      /\ out = parseEvents(ToolResult(<<TextBlock(OtherForm(text))>>), zone)
      /\ AllObjects(text.events) =>
           ~IsErr(out) /\ Len(out.records) = Len(text.events)

\* The wrapped form of a list of two events has been decoded to two records.
C20_Witness ==
  /\ phase = "done"
  /\ tool = "list-events"
  /\ reply.res.Content # <<>>
  /\ FirstText(reply.res.Content).shape = "wrapped"
  /\ Len(FirstText(reply.res.Content).events) = 2
  /\ ~IsErr(out)
  /\ Len(out.records) = 2
  /\ out.records[1].AllDay /\ ~out.records[2].AllDay

\* The text the calendar tool returned decodes neither as an array of events
\* nor as the object wrapping one.
Undecodable(text) ==
  /\ text.shape \notin {"empty", "null"}
  /\ ~(text.shape = "array" /\ AllObjects(text.events))
  /\ ~(text.shape \in {"wrapped", "object"} /\ AllObjects(text.events))

\* C21: for a text that decodes neither as an array of events nor as the
\* wrapped object, the calendar method returns no records and a decode error
\* whose excerpt is the text itself when it has at most 200 bytes, and else
\* its first 200 bytes followed by an ellipsis: never more than 203 bytes.
C21_BoundedPreview ==
  (/\ phase = "done" /\ tool = "list-events" /\ ~IsErr(toolResult)
   /\ Undecodable(FirstText(reply.res.Content))) =>
    LET bytes == FirstText(reply.res.Content).bytes IN
      /\ out.records = <<>>
      /\ out.err = <<"failed to parse calendar events", "json: cannot unmarshal">>
      /\ Len(out.excerpt) <= PreviewMax + Len(Ellipsis)
      /\ out.excerpt = IF Len(bytes) <= PreviewMax THEN bytes
                       ELSE [i \in 1..(PreviewMax + Len(Ellipsis)) |->
                               IF i <= PreviewMax THEN bytes[i]
                               ELSE Ellipsis[i - PreviewMax]]

\* A text longer than the preview has been refused with a decode error.
C21_Witness ==
  /\ phase = "done"
  /\ tool = "list-events"
  /\ reply.res.Content # <<>>
  /\ FirstText(reply.res.Content).shape = "notjson"
  /\ Len(FirstText(reply.res.Content).bytes) = PreviewMax + MaxExcess
  /\ IsErr(out)
  /\ Len(out.excerpt) = PreviewMax + 3

\* The text of the first block of type "text", the empty string when there
\* is none.
TextBlocks(content) == {i \in 1..Len(content) : content[i].Type = "text"}
TextRead(content) ==
  IF TextBlocks(content) = {} THEN Payload("empty", <<>>)
  ELSE content[CHOOSE i \in TextBlocks(content) : \A j \in TextBlocks(content) : i <= j].Text

\* C22: for every tool result the task method returns a list of at most one
\* task for each block of its text and never an error; the calendar method
\* returns a decode error with no records exactly when the text it reads
\* (the first text block) is no list of events, and else one record for each
\* element of the list (none when there is no text).
C22_DecodersTotal ==
  /\ (phase = "done" /\ tool = "get_today" /\ ~IsErr(toolResult)) =>
       /\ out.decoded
       /\ ~IsErr(out)
       /\ out.excerpt = <<>>
       /\ Len(out.records) <= Len(out.blocks)
  /\ (phase = "done" /\ tool = "list-events" /\ ~IsErr(toolResult)) =>
       LET text == TextRead(reply.res.Content) IN
         /\ out.decoded
         /\ IsErr(out) <=> Undecodable(text)
         /\ IsErr(out) => out.records = <<>>
         /\ ~IsErr(out) => Len(out.records) = Len(text.events)

\* The calendar decoder has returned the empty list for a result of two
\* blocks none of which is a text.
C22_Witness ==
  /\ phase = "done"
  /\ tool = "list-events"
  /\ ~IsErr(toolResult)
  /\ Len(reply.res.Content) = 2
  /\ TextBlocks(reply.res.Content) = {}
  /\ out = Records(<<>>)

\* The local day a call is made on (days from 2025-03-10), and midnight of a
\* day as a date and a clock.
LocalDay == (request.now + zone * 60) \div 1440
Midnight(day) == <<day, 0>>
RangeIssued == request.method # "" /\ phase # "asked"

\* C23: GetTodayEvents asks for the range from midnight of the local day of
\* the call to midnight of the next day, GetUpcomingEvents(days) for the
\* range from the same midnight to the midnight days days later; so
\* GetUpcomingEvents(1) asks for the range GetTodayEvents asks for, and the
\* start is midnight whatever the minute of the day of the call.
C23_RangeFromLocalMidnight ==
  RangeIssued =>
    /\ args.calendarId = "primary"
    /\ args.timeMin = Midnight(LocalDay)
    /\ request.method = "GetTodayEvents" => args.timeMax = Midnight(LocalDay + 1)
    /\ request.method = "GetUpcomingEvents" =>
         args.timeMax = Midnight(LocalDay + request.days)
    /\ (request.method = "GetUpcomingEvents" /\ request.days = 1) =>
         args = RangeArgs(StartOfDay(Now(request.now), zone),
                          Add(StartOfDay(Now(request.now), zone), 24 * 60), zone)

\* GetUpcomingEvents(1) was called in the last minute of a day that is not
\* the same day in UTC, and has asked for its range.
C23_Witness ==
  /\ RangeIssued
  /\ request.method = "GetUpcomingEvents"
  /\ request.days = 1
  /\ request.now = 1439
  /\ zone = 2
  /\ args.timeMin = <<1, 0>>
  /\ args.timeMax = <<2, 0>>

\* ------------------------------------------------------- claims on the app
\* The cycle of the layouts.
Successor(layout) ==
  CASE layout = "single" -> "split-h"
    [] layout = "split-h" -> "split-v"
    [] layout = "split-v" -> "grid"
    [] layout = "grid" -> "single"

\* C24: whenever a press of \ has been handled the program is still running
\* and the layout is the one that follows, in the cycle single, split-h,
\* split-v, grid, single, the layout the press found (so four presses lead
\* back to the layout they started from), whether the pane instances exist
\* or not.
C24_LayoutCycle ==
  (hist.kind = "key" /\ hist.key = "\\") =>
    /\ app.ended = "no"
    /\ app.layout = Successor(hist.layout)

\* C25: in the app whose panes were created, after Ctrl+w o on a split or
\* grid layout with its panes the layout
\* is single with the pane that was focused as the only active one, and
\* after the Ctrl+w o that follows it the layout and the number of active
\* panes are those from before the first.
C25_MaximizeRoundTrip ==
  /\ (initPc = "done" /\ hist.key = "o" /\ hist.trip = "maximized" /\ hist.panes >= 2) =>
       /\ app.layout = "single"
       /\ Len(app.activePanes) = 1
       /\ app.focusedPane = 0
  /\ (initPc = "done" /\ hist.trip = "restored" /\ hist.panes >= 2) =>
       /\ app.layout = hist.maximized
       /\ Len(app.activePanes) = hist.panes

\* The program runs and shows at least one pane.
ShowsPanes == app.ended = "no" /\ Len(app.activePanes) >= 1

\* C33: whenever the app has an active pane, the pane at index focusedPane
\* reports IsFocused() = true and every active pane that is another
\* instance reports false, in every layout and after Tab and Shift+Tab.
C33_FocusedPaneHasFocus ==
  ShowsPanes =>
    /\ InRange(app)
    /\ app.focused[FocusedType(app)]
    /\ \A i \in 1..Len(app.activePanes) :
         app.activePanes[i] # FocusedType(app) => ~app.focused[app.activePanes[i]]

\* The part of C33 the code keeps: no active pane that is another instance
\* than the one at focusedPane reports true.
C33_OthersBlurred ==
  ShowsPanes /\ InRange(app) =>
    \A i \in 1..Len(app.activePanes) :
      app.activePanes[i] # FocusedType(app) => ~app.focused[app.activePanes[i]]

\* C34: whenever activePanes is not empty, focusedPane is an index into it,
\* so that no handler indexes activePanes out of range.
C34_FocusedPaneInRange == ShowsPanes => InRange(app)

\* The number of panes a layout shows.
PanesOf(layout) ==
  IF layout = "single" THEN 1 ELSE IF layout = "grid" THEN 4 ELSE 2

\* C35: the layout and the active panes agree: one active pane in the single
\* layout, two in split-h and split-v, four in grid, each an existing pane
\* instance.
C35_LayoutMatchesPanes ==
  app.ended = "no" =>
    /\ Len(app.activePanes) = PanesOf(app.layout)
    /\ \A i \in 1..Len(app.activePanes) : app.activePanes[i] \in app.paneInstances

\* The part of C35 the code keeps: every active pane is an existing instance.
C35_PanesExist ==
  app.ended = "no" =>
    \A i \in 1..Len(app.activePanes) : app.activePanes[i] \in app.paneInstances

\* C26: a key handled while the modal is visible hides it and clears
\* c.sessionID when it is Esc, hides it and leaves c.sessionID as it is when
\* it is c; and the handling of any other key, or of Esc without the modal,
\* leaves c.sessionID as it is.
C26_ModalKeys ==
  /\ []((hist.kind = "key" /\ hist.key = "esc" /\ hist.modal) =>
          ~app.aiModalVisible /\ sessionID = "")
  /\ [][hist'.kind = "key" =>
          /\ (hist'.key \in {"esc", "c"} /\ app.aiModalVisible) => ~app'.aiModalVisible
          /\ sessionID' = IF hist'.key = "esc" /\ app.aiModalVisible
                          THEN "" ELSE sessionID]_vars

\* Esc was pressed with the modal visible and a session stored: the modal is
\* hidden and the session cleared.
C26_Witness ==
  /\ hist.kind = "key"
  /\ hist.key = "esc"
  /\ hist.modal
  /\ hist.session \in SessionIDs
  /\ sessionID = ""
  /\ ~app.aiModalVisible

\* C27: an Ask without NewSession gives the CLI exactly the stored token
\* (no flag when none is stored); an Ask that ends in a response with a
\* token stores exactly that token; and the stored token changes in no
\* other step than such an end of an Ask or ClearSession, so not when an Ask
\* ends in a command error or an API error.
C27_TokenVerbatim ==
  /\ []((hist.kind = "ask-begin" /\ hist.key = "") => hist.id = sessionID)
  /\ []((hist.kind = "ask-end" /\ hist.key = "ok" /\ hist.id # "") => sessionID = hist.id)
  /\ [][sessionID' # sessionID =>
          \/ /\ hist'.kind = "ask-end" /\ hist'.key = "ok"
             /\ hist'.id # "" /\ sessionID' = hist'.id
          \/ hist'.kind = "clear" /\ sessionID' = ""]_vars

\* An Ask without NewSession has given the CLI the token S1 that an earlier
\* Ask stored.
C27_Witness ==
  /\ hist.kind = "ask-begin"
  /\ hist.key = ""
  /\ hist.id = "S1"
  /\ sessionID = "S1"

\* C38: parseEvents returns an empty event list without error only when the
\* tool result really holds no events (no content block, no text, an empty
\* top-level array, or a wrapped object whose events array is empty); a text
\* of any other shape, such as a JSON object without an events array, gives
\* a decode error and not an empty list.
HoldsNoEvents(result) ==
  LET text == FirstText(result.Content) IN
    \/ text.shape = "empty"
    \/ text.shape \in {"array", "wrapped"} /\ text.events = <<>>
C38_EmptyListMeansNoEvents ==
  (phase = "done" /\ tool = "list-events" /\ out.decoded) =>
    /\ (~IsErr(out) /\ out.records = <<>>) => HoldsNoEvents(reply.res)
    /\ FirstText(reply.res.Content).shape \notin {"empty", "array", "wrapped"}
         => IsErr(out)

\* What does hold: a text that is no JSON, or a JSON value that is neither
\* an array, an object nor null, gives a decode error.
C38_NoJsonIsAnError ==
  (phase = "done" /\ tool = "list-events" /\ out.decoded
   /\ FirstText(reply.res.Content).shape \in {"scalar", "notjson"}) => IsErr(out)

\* C39: at most one request to the assistant is in flight at a time: while
\* aiLoading is true no key press starts another Ask, so two calls of Ask
\* never read and write the client's session id concurrently.
InsideAsk == asks (-) [r \in {q \in BagToSet(asks) : q.stage = "returned"} |-> CopiesIn(r, asks)]
C39_OneAskInFlight ==
  /\ [](BagCardinality(InsideAsk) <= 1)
  /\ [][(hist'.kind = "key" /\ app.aiLoading) => asks' = asks]_vars

\* What does hold: no Ask is started while the modal is shown.
C39_NoAskFromModal ==
  [][(hist'.kind = "key" /\ app.aiModalVisible) => asks' = asks]_vars

\* ---- claims on the tasks pane

\* C36: in the tasks pane, whatever keys and TasksLoadedMsg / TaskCompletedMsg
\* messages have been handled, the cursor is not negative and is below the
\* length of the task list when the list is not empty, and is 0 when it is
\* empty, so that the select and mark-complete handlers never index the list
\* out of range; a TasksLoadedMsg with an error leaves the list and the
\* cursor as they were.
C36_CursorInRange ==
  /\ [](/\ pane.cursor >= 0
        /\ pane.tasks.n > 0 => pane.cursor < pane.tasks.n
        /\ pane.tasks.n = 0 => pane.cursor = 0
        /\ pane.ended = "no")
  /\ [][hist'.kind = "loaded-err" =>
          pane'.tasks = pane.tasks /\ pane'.cursor = pane.cursor]_vars

\* A list of MaxTasks tasks was loaded, the cursor was moved to its last
\* task, and a fetch that failed has just delivered: the list and the cursor
\* are still there, with the error.
C36_Witness ==
  /\ hist.kind = "loaded-err"
  /\ pane.tasks.n = MaxTasks
  /\ pane.cursor = MaxTasks - 1
  /\ pane.err
  /\ ~pane.loading

\* C37: in the tasks pane, once every outstanding refresh has delivered its
\* TasksLoadedMsg, the task list shown is the one fetched for the current
\* view mode, and the loading flag is false exactly when no refresh is
\* outstanding, in whatever order the responses of overlapping refreshes
\* arrive.  (A list is shown when one was loaded and the last fetch to
\* deliver did not fail.)
ListShown == pane.tasks.view # "" /\ ~pane.err
C37_ListOfCurrentView == (Loads = {} /\ ListShown) => pane.tasks.view = pane.viewMode
C37_LoadingWhileOutstanding == pane.loading <=> Loads # {}
C37_RefreshesSettle == C37_ListOfCurrentView /\ C37_LoadingWhileOutstanding

\* C40: in the running app with the tasks pane focused, a press of 1, 2, 3 or
\* 4 that is delivered through the root model's Update sets the view mode of
\* the tasks pane to Today, Inbox, Upcoming or Anytime and starts a refresh
\* for that view.
C40_NumberKeysSetView ==
  [][(hist'.kind = "root-key" /\ hist'.key \in ViewKeys /\ hist'.focus = "tasks") =>
       /\ pane'.viewMode = ViewOf(hist'.key)
       /\ CopiesIn(LoadCmd(ViewOf(hist'.key)), cmds')
            = CopiesIn(LoadCmd(ViewOf(hist'.key)), cmds) + 1]_vars

\* What the root model does instead: the view mode is the one of tasks.New
\* for ever.
C40_ViewModeNeverChanges == pane.viewMode = TasksNew.viewMode

====
